---------------------------- MODULE Spec2Model ----------------------------
(***************************************************************************)
(* Variable Explorer collections table: the lazily loaded, sortable table  *)
(* model (CollectionsModel) behind CollectionsEditorTableView.             *)
(*                                                                         *)
(* spyder/widgets/collectionseditor.py is not part of the sources at hand; *)
(* the table model is therefore written from its description (spec.md      *)
(* sections 3, 4.1, 4.3) and from what its test-suite                      *)
(* (src/spyder/widgets/tests/test_collectioneditor.py) pins down.  Where   *)
(* the two disagree the test-suite is followed, and the place is marked.   *)
(*                                                                         *)
(* Strings are sequences of character codes, so that natural sorting,      *)
(* case folding and the decimal formatting of numbers are computed the way *)
(* the program computes them.                                              *)
(***************************************************************************)
EXTENDS Integers, Sequences, FiniteSets, TLC

(***************************************************************************)
(* Bounds of the model                                                     *)
(***************************************************************************)
\* Page size of the lazy loading (ROWS_TO_LOAD in the program, scaled down).
ROWS_TO_LOAD == 2

(***************************************************************************)
(* Characters and strings                                                  *)
(***************************************************************************)
Min(a, b) == IF a <= b THEN a ELSE b

IsDigit(c) == c \in 48..57

\* str.lower() on one character code.
Lower(c) == IF c \in 65..90 THEN c + 32 ELSE c

LowerStr(s) == [i \in 1..Len(s) |-> Lower(s[i])]

Reverse(s) == [i \in 1..Len(s) |-> s[Len(s) + 1 - i]]

\* Python's < on two strings: by code point, a proper prefix is smaller.
RECURSIVE StrLessFrom(_, _, _)
StrLessFrom(a, b, i) ==
    IF i > Len(b) THEN FALSE
    ELSE IF i > Len(a) THEN TRUE
    ELSE IF a[i] # b[i] THEN a[i] < b[i]
    ELSE StrLessFrom(a, b, i + 1)

StrLess(a, b) == StrLessFrom(a, b, 1)

\* int(digits) for a run of decimal digits.
RECURSIVE ToInt(_)
ToInt(d) ==
    IF d = <<>> THEN 0
    ELSE 10 * ToInt(SubSeq(d, 1, Len(d) - 1)) + (d[Len(d)] - 48)

\* Decimal digits of a natural number ('{}'.format(n) / repr(n)).
RECURSIVE Digits(_)
Digits(n) ==
    IF n < 10 THEN <<48 + n>>
    ELSE Digits(n \div 10) \o <<48 + (n % 10)>>

\* repr() of an integer: a minus sign for negatives, then the digits.
Repr(n) == IF n < 0 THEN <<45>> \o Digits(0 - n) ELSE Digits(n)

(***************************************************************************)
(* natsort: the key function of natural sorting                            *)
(***************************************************************************)
\* re.split('([0-9]+)', s): alternating runs, text first and last (either
\* may be empty), digit runs at the even positions.
RECURSIVE SplitRuns(_, _, _, _, _)
SplitRuns(s, i, cur, inDigits, acc) ==
    IF i > Len(s)
    THEN IF inDigits THEN acc \o <<cur, <<>> >> ELSE acc \o <<cur>>
    ELSE IF IsDigit(s[i]) = inDigits
         THEN SplitRuns(s, i + 1, cur \o <<s[i]>>, inDigits, acc)
         ELSE SplitRuns(s, i + 1, <<s[i]>>, ~inDigits, acc \o <<cur>>)

\* A digit run as a number, as the program converts it.
natsort_num(d) == ToInt(d)

\* natsort without the split into runs: the lower-cased string as one run.
natsort_Plain(s) == <<[isnum |-> FALSE, num |-> 0, txt |-> LowerStr(s)]>>

\* natsort(s): digit runs become integers, text runs are lower-cased.
natsort(s) ==
    LET parts == SplitRuns(s, 1, <<>>, FALSE, <<>>)
    IN  [i \in 1..Len(parts) |->
            IF i % 2 = 0
            THEN [isnum |-> TRUE, num |-> natsort_num(parts[i]), txt |-> <<>>]
            ELSE [isnum |-> FALSE, num |-> 0, txt |-> LowerStr(parts[i])]]

\* Python's < on two natsort keys (lists compare element by element).
RECURSIVE NatLessFrom(_, _, _)
NatLessFrom(a, b, i) ==
    IF i > Len(b) THEN FALSE
    ELSE IF i > Len(a) THEN TRUE
    ELSE IF a[i] = b[i] THEN NatLessFrom(a, b, i + 1)
    ELSE IF a[i].isnum THEN a[i].num < b[i].num
    ELSE StrLess(a[i].txt, b[i].txt)

NatLess(a, b) == NatLessFrom(natsort(a), natsort(b), 1)


(***************************************************************************)
(* Entries of a namespace                                                  *)
(***************************************************************************)
\* 'test{}'.format(n)
TestKey(n) == <<116, 101, 115, 116>> \o Digits(n)

\* The numbers the test keys of the model are built from.
TestNumbers == {3, 20, 100}

K_Test3 == <<84, 101, 115, 116, 51>>      \* "Test3"

\* The names the kernel's namespace can hold.
Keys == {TestKey(n) : n \in TestNumbers} \cup {K_Test3}

\* rename_item in the model: these names are renamed, to this new name.
RenameFrom == {TestKey(3), TestKey(20), K_Test3}
NewNames == {K_Test3}

T_int       == <<105, 110, 116>>                         \* "int"
T_list      == <<108, 105, 115, 116>>                    \* "list"
T_DataFrame == <<68, 97, 116, 97, 70, 114, 97, 109, 101>> \* "DataFrame"

\* SizeDescriptor: an integer count, or a tuple of dimensions.
Count(n) == [scalar |-> TRUE, n |-> n, dims |-> <<>>]
Shape(d) == [scalar |-> FALSE, n |-> 0, dims |-> d]

\* A value is a number, or anything else, known by its display text.
Num(n)    == [isnum |-> TRUE, n |-> n, text |-> <<>>]
Other(t)  == [isnum |-> FALSE, n |-> 0, text |-> t]

V_list   == <<91, 49, 93>>       \* "[1]"
V_frame  == <<67, 111, 108>>     \* "Col" (Column names: ...)

Entry(k, t, s, v) == [key |-> k, type |-> t, size |-> s, value |-> v]

\* What each name can be bound to in the kernel: a number, or a container.
Bindings(k) ==
    CASE k = TestKey(3)   -> {Entry(k, T_int, Count(1), Num(0 - 10))}
      [] k = TestKey(20)  -> {Entry(k, T_int, Count(1), Num(0 - 1))}
      [] k = TestKey(100) -> {Entry(k, T_int, Count(1), Num(0)),
                              Entry(k, T_DataFrame, Shape(<<3, 3>>), Other(V_frame))}
      [] OTHER            -> {Entry(k, T_int, Count(1), Num(2)),
                              Entry(k, T_list, Count(3), Other(V_list)),
                              Entry(k, T_DataFrame, Shape(<<2, 3>>), Other(V_frame))}

\* Every entry of the model: rename_item moves a binding to a new name.
Entries ==
    UNION {Bindings(k) : k \in Keys}
    \cup {[e EXCEPT !.key = k] : e \in UNION {Bindings(j) : j \in RenameFrom},
                                 k \in NewNames}

\* The text shown in the Value column.
Display(v) == IF v.isnum THEN Repr(v.n) ELSE v.text

(***************************************************************************)
(* The Entry Store: a dict, i.e. entries with unique keys in insertion     *)
(* order                                                                   *)
(***************************************************************************)
KeysOf(d) == [i \in 1..Len(d) |-> d[i].key]

Range(s) == {s[i] : i \in 1..Len(s)}

HasKey(d, k) == \E i \in 1..Len(d) : d[i].key = k

IndexOf(d, k) == CHOOSE i \in 1..Len(d) : d[i].key = k

Lookup(d, k) == d[IndexOf(d, k)]

UniqueKeys(d) == \A i, j \in 1..Len(d) : d[i].key = d[j].key => i = j

\* The namespaces of the model.
IsStore(d) ==
    /\ d \in Seq(Entries)
    /\ UniqueKeys(d)

\* d without the entries whose keys are in ks; the others keep their order.
RECURSIVE Without(_, _)
Without(d, ks) ==
    IF d = <<>> THEN <<>>
    ELSE IF d[1].key \in ks THEN Without(Tail(d), ks)
    ELSE <<d[1]>> \o Without(Tail(d), ks)

\* The namespaces the kernel reports when the table is opened and on a
\* full resynchronisation.
Snapshots ==
    LET int3   == Entry(TestKey(3), T_int, Count(1), Num(0 - 10))
        int20  == Entry(TestKey(20), T_int, Count(1), Num(0 - 1))
        int100 == Entry(TestKey(100), T_int, Count(1), Num(0))
        df100  == Entry(TestKey(100), T_DataFrame, Shape(<<3, 3>>), Other(V_frame))
        listT3 == Entry(K_Test3, T_list, Count(3), Other(V_list))
        dfT3   == Entry(K_Test3, T_DataFrame, Shape(<<2, 3>>), Other(V_frame))
    IN  {<<>>,
         <<int20, int100, int3>>,
         <<df100, dfT3, int3, int20>>,
         <<int3, listT3>>}

(***************************************************************************)
(* Sorting                                                                 *)
(***************************************************************************)
\* Columns of the table.
COL_KEY   == 0
COL_TYPE  == 1
COL_SIZE  == 2
COL_VALUE == 3

Columns == {COL_KEY, COL_TYPE, COL_SIZE, COL_VALUE}

\* Two sizes can be compared when both are counts or both are tuples; a
\* count against a tuple makes the comparison, and with it the sort, fail.
SizeComparable(a, b) == a.scalar = b.scalar

SizeLess(a, b) ==
    IF a.scalar THEN a.n < b.n ELSE StrLessFrom(a.dims, b.dims, 1)

\* ValueLess on the display text alone.
ValueLess_Text(a, b) == StrLess(Display(a), Display(b))

\* Value column: by number when both are numbers, else by display text.
ValueLess(a, b) ==
    IF a.isnum /\ b.isnum THEN a.n < b.n
    ELSE StrLess(Display(a), Display(b))

\* The comparator of a column, on two entries.
ColumnLess(col, a, b) ==
    CASE col = COL_KEY  -> NatLess(a.key, b.key)
      [] col = COL_TYPE -> StrLess(a.type, b.type)
      [] col = COL_SIZE -> SizeLess(a.size, b.size)
      [] OTHER          -> ValueLess(a.value, b.value)

\* Before with the reverse flag dropped.
Before_IgnoreReverse(col, reverse, a, b) == ColumnLess(col, a, b)

\* a must come before b: the comparator, turned around when reverse=True.
Before(col, reverse, a, b) ==
    IF reverse THEN ColumnLess(col, b, a) ELSE ColumnLess(col, a, b)

\* One step of a stable sort: x goes behind every element it is not
\* strictly before.
RECURSIVE InsertSorted(_, _, _, _)
InsertSorted(s, x, col, reverse) ==
    IF s = <<>> THEN <<x>>
    ELSE IF Before(col, reverse, x, s[Len(s)])
         THEN Append(InsertSorted(SubSeq(s, 1, Len(s) - 1), x, col, reverse),
                     s[Len(s)])
         ELSE Append(s, x)

\* sorted(rows, key=..., reverse=reverse): stable in both directions.
RECURSIVE sorted(_, _, _)
sorted(rows, col, reverse) ==
    IF rows = <<>> THEN <<>>
    ELSE InsertSorted(sorted(SubSeq(rows, 1, Len(rows) - 1), col, reverse),
                      rows[Len(rows)], col, reverse)

\* The sort of a column can be carried out: every pair can be compared.
Sortable(d, col) ==
    col = COL_SIZE =>
        \A i, j \in 1..Len(d) : SizeComparable(d[i].size, d[j].size)

(***************************************************************************)
(* list.sort() of the sizes when a comparison fails: the elements before   *)
(* the first one that cannot be compared have been put in order, the rest  *)
(* is untouched, and the exception is swallowed.                           *)
(***************************************************************************)
\* Length of the longest prefix of sizes that can be compared pairwise.
RECURSIVE ComparablePrefix(_, _)
ComparablePrefix(sz, n) ==
    IF n >= Len(sz) THEN Len(sz)
    ELSE IF SizeComparable(sz[n], sz[n + 1]) THEN ComparablePrefix(sz, n + 1)
    ELSE n

RECURSIVE InsertSize(_, _)
InsertSize(s, x) ==
    IF s = <<>> THEN <<x>>
    ELSE IF SizeLess(x, s[Len(s)])
         THEN Append(InsertSize(SubSeq(s, 1, Len(s) - 1), x), s[Len(s)])
         ELSE Append(s, x)

RECURSIVE SortedSizes(_)
SortedSizes(sz) ==
    IF sz = <<>> THEN <<>>
    ELSE InsertSize(SortedSizes(SubSeq(sz, 1, Len(sz) - 1)), sz[Len(sz)])

\* sizes after a sort that stopped with the first p elements in order.
PartlySorted(sz, p) == SortedSizes(SubSeq(sz, 1, p)) \o SubSeq(sz, p + 1, Len(sz))

\* The states list.sort(reverse=reverse) can leave a list of sizes in when
\* it fails: reversed first and reversed back when reverse is set.
FailedSizeSort(sz, reverse) ==
    LET work == IF reverse THEN Reverse(sz) ELSE sz
    IN  {IF reverse THEN Reverse(PartlySorted(work, p)) ELSE PartlySorted(work, p) :
            p \in {1, ComparablePrefix(work, 1)}}

(***************************************************************************)
(* The Remote Value Channel: NamepaceBrowserWidget                         *)
(*                                                                         *)
(* Texts are sequences of fragments, so that str.startswith, str.format    *)
(* and the % operator are what they are in the source: operations on the   *)
(* parts of a text.                                                        *)
(***************************************************************************)
\* Max time before giving up when making a blocking call to the kernel
CALL_KERNEL_TIMEOUT == 30

\* call_kernel(timeout=t), and call_kernel() without a timeout argument
Timeout(t) == [given |-> TRUE, seconds |-> t]
NoTimeout  == [given |-> FALSE, seconds |-> 0]

None == "None"

\* Classes an exception of class cls is an instance of (Python's hierarchy).
Bases(cls) ==
    CASE cls = "TimeoutError"        -> {"TimeoutError", "OSError", "Exception"}
      [] cls = "OSError"             -> {"OSError", "Exception"}
      [] cls = "PicklingError"       -> {"PicklingError", "PickleError", "Exception"}
      [] cls = "UnpicklingError"     -> {"UnpicklingError", "PickleError", "Exception"}
      [] cls = "TypeError"           -> {"TypeError", "Exception"}
      [] cls = "AttributeError"      -> {"AttributeError", "Exception"}
      [] cls = "RuntimeError"        -> {"RuntimeError", "Exception"}
      [] cls = "KeyError"            -> {"KeyError", "LookupError", "Exception"}
      [] cls = "CommError"           -> {"CommError", "Exception"}
      [] cls = "ModuleNotFoundError" -> {"ModuleNotFoundError", "ImportError",
                                         "Exception"}
      [] OTHER                       -> {cls, "Exception"}

\* except (classes): does the clause catch e?
Catches(classes, e) == Bases(e.cls) \cap classes # {}

\* An exception: its class, str(err), and for a ModuleNotFoundError the
\* name of the module (e.name, or e.args[0].error.name for an error that
\* was raised in the kernel).
Exc(cls, text, module) == [cls |-> cls, text |-> text, module |-> module]

\* No exception.
NoExc == Exc(None, <<>>, <<>>)

\* str.startswith(prefixes)
startswith(text, prefixes) == Len(text) > 0 /\ text[1] \in prefixes

code_expected == <<"code expected at most", " 16 arguments, got 18">>
code_argument == <<"code() argument", " 13 must be str, not int">>
cannot_pickle == <<"cannot pickle", " 'generator' object">>
kernel_died   == <<"Kernel died">>
disk_failure  == <<"[Errno 5]", " Input/output error">>
no_attribute  == <<"Can't get attribute", " 'Point' on <module '__main__'>">>

numpy_core   == <<"numpy._core", ".multiarray">>
pandas_index == <<"pandas.core.indexes.numeric">>
some_module  == <<"torch">>
Modules == {numpy_core, pandas_index, some_module}

reason_big           == <<"The variable is too big to be retrieved">>
reason_not_picklable == <<"It was not possible to create a copy of the variable">>
reason_dead          == <<"The kernel is dead">>
reason_other         == <<"An unknown error occurred, sorry.">>
reason_comm          == <<"The channel used to communicate with the kernel is not working.">>
reason_missing_package_target(m) ==
    <<"module is required and not installed in the console environment">> \o m
reason_missing_package_installer(m) ==
    <<"module is required and not part of our installer">> \o m
reason_missing_package(m) ==
    <<"module is required and not installed alongside Spyder">> \o m
reason_mismatched_numpy  == <<"mismatch between the Numpy versions: upgrade numpy of Spyder">>
reason_mismatched_pandas == <<"mismatch between the Pandas versions: upgrade pandas of the console">>
reason_mismatched_python(spyder, kernel, good, compatible) ==
    <<"mismatch between the Python versions", spyder, kernel, good, compatible>>
reason_mismatched_numpy_set == <<"mismatch between the Numpy versions: upgrade numpy of the console">>

\* msg % reason
msg(reason) == <<"<br>">> \o reason \o <<"<br><br><b>Note</b>: report it on Github">>

\* Python versions of the host and of the kernel, and packaging's parse()
Versions == {"3.10.9", "3.11.4"}
parse(v) == IF v = "3.10.9" THEN <<3, 10, 9>> ELSE <<3, 11, 4>>
VersionLess(a, b) ==
    \/ a[1] < b[1]
    \/ a[1] = b[1] /\ a[2] < b[2]
    \/ a[1] = b[1] /\ a[2] = b[2] /\ a[3] < b[3]

\* How a call ends: with a value returned or with an exception raised.
Returned(v) == [raised |-> FALSE, cls |-> None, text |-> <<>>, value |-> v]
Raised(cls, text) == [raised |-> TRUE, cls |-> cls, text |-> text, value |-> None]
ValueError(text) == Raised("ValueError", text)

\* What the host is: is_conda_based_app(), sys.version_info and
\* get_pythonenv_info()["python_version"].
Hosts == [conda : BOOLEAN, spyder : Versions, kernel : Versions]

DecodedValue == "value"

\* What the kernel call and cloudpickle.loads can do to get_value:
\* kernel_call_success tells whether the call returned, exc is the
\* exception raised by the call or by loads (NoExc: the value was decoded).
CallFailures ==
    {Exc("TimeoutError", <<"timed out">>, <<>>),
     Exc("PicklingError", cannot_pickle, <<>>),
     Exc("RuntimeError", kernel_died, <<>>),
     Exc("KeyError", <<"name">>, <<>>),
     Exc("CommError", <<"comm closed">>, <<>>),
     Exc("OSError", disk_failure, <<>>)}
        \cup {Exc("ModuleNotFoundError", <<"No module named">> \o m, m) : m \in Modules}

DecodeFailures ==
    {Exc("UnpicklingError", <<"invalid load key">>, <<>>),
     Exc("TypeError", code_expected, <<>>),
     Exc("TypeError", code_argument, <<>>),
     Exc("TypeError", cannot_pickle, <<>>),
     Exc("AttributeError", no_attribute, <<>>)}
        \cup {Exc("ModuleNotFoundError", <<"No module named">> \o m, m) : m \in Modules}

Replies ==
    {[kernel_call_success |-> TRUE, exc |-> NoExc]}
        \cup {[kernel_call_success |-> FALSE, exc |-> e] : e \in CallFailures}
        \cup {[kernel_call_success |-> TRUE, exc |-> e] : e \in DecodeFailures}

\* get_value without its except clauses: every exception goes through.
get_value_Unhandled(reply, host) ==
    IF reply.exc = NoExc THEN Returned(DecodedValue)
    ELSE Raised(reply.exc.cls, reply.exc.text)

\* get_value(name): the outcome for a reply of the kernel, clause by clause.
get_value(reply, host) ==
    LET e == reply.exc IN
    IF e = NoExc THEN Returned(DecodedValue)
    ELSE IF Catches({"TimeoutError"}, e) THEN ValueError(msg(reason_big))
    ELSE IF Catches({"PicklingError", "UnpicklingError", "TypeError"}, e) THEN
        IF startswith(e.text, {"code expected at most", "code() argument"})
        THEN IF VersionLess(parse(host.spyder), parse(host.kernel))
             THEN ValueError(msg(reason_mismatched_python(
                      host.spyder, host.kernel, "3.10", "lower")))
             ELSE ValueError(msg(reason_mismatched_python(
                      host.spyder, host.kernel, "3.11", "greater")))
        ELSE ValueError(msg(reason_not_picklable))
    ELSE IF Catches({"RuntimeError"}, e) THEN ValueError(msg(reason_dead))
    ELSE IF Catches({"KeyError"}, e) THEN Raised(e.cls, e.text)
    ELSE IF Catches({"CommError"}, e) THEN ValueError(msg(reason_comm))
    ELSE IF Catches({"ModuleNotFoundError"}, e) THEN
        IF ~reply.kernel_call_success
        THEN ValueError(msg(reason_missing_package_target(e.module)))
        ELSE IF host.conda
        THEN ValueError(msg(reason_missing_package_installer(e.module)))
        ELSE IF startswith(e.module, {"numpy._core"})
        THEN ValueError(msg(reason_mismatched_numpy))
        ELSE IF e.module = pandas_index
        THEN ValueError(msg(reason_mismatched_pandas))
        ELSE ValueError(msg(reason_missing_package(e.module)))
    ELSE IF Catches({"Exception"}, e) THEN ValueError(msg(reason_other))
    ELSE Raised(e.cls, e.text)

\* What the kernel call can do to set_value: exc is the exception raised by
\* the call (NoExc: the kernel took the assignment).
SetReplies ==
    {[kernel_call_success |-> TRUE, exc |-> NoExc]}
        \cup {[kernel_call_success |-> FALSE, exc |-> e] : e \in CallFailures}

\* set_value(name, value), after cloudpickle.dumps: the outcome for a reply.
set_value(reply) ==
    LET e == reply.exc IN
    IF e = NoExc THEN Returned(None)
    ELSE IF Catches({"ModuleNotFoundError"}, e) THEN
        IF startswith(e.module, {"numpy._core"})
        THEN ValueError(msg(reason_mismatched_numpy_set))
        ELSE Returned(None)
    ELSE IF Catches({"Exception"}, e) THEN Returned(None)
    ELSE Raised(e.cls, e.text)

(***************************************************************************)
(* The Type Dispatcher: what CollectionsDelegate and ToggleColumnDelegate   *)
(* make of a value                                                         *)
(***************************************************************************)
T_tuple     == <<116, 117, 112, 108, 101>>                    \* "tuple"
T_set       == <<115, 101, 116>>                              \* "set"
T_frozenset == <<102, 114, 111, 122, 101, 110, 115, 101, 116>> \* "frozenset"
T_str       == <<115, 116, 114>>                              \* "str"
T_date      == <<100, 97, 116, 101>>                          \* "date"
T_datetime  == <<100, 97, 116, 101, 116, 105, 109, 101>>      \* "datetime"
T_Array     == <<65, 114, 114, 97, 121, 32, 111, 102, 32, 102, 108, 111, 97,
                 116, 54, 52>>                                \* "Array of float64"
T_MyIndexer == <<77, 121, 73, 110, 100, 101, 120, 101, 114>>  \* "MyIndexer"
T_Image     == <<73, 109, 97, 103, 101>>                      \* "Image"
T_Polars    == <<80, 111, 108, 97, 114, 115, 32, 68, 97, 116, 97, 70, 114,
                 97, 109, 101>>                               \* "Polars DataFrame"
T_Point     == <<80, 111, 105, 110, 116>>                     \* "Point"
T_void      == <<118, 111, 105, 100>>                         \* "void"

\* The maximum length of the text in a QLineEdit
MAX_INT_DIGITS_FOR_EDITING == 32767

\* int(e * math.log(10) / math.log(2)) in integer arithmetic, with
\* log(10) / log(2) = 3.3219281
FloorLog2Of10(e) == (e * 3321 + (e * 9281) \div 10000) \div 1000

\* int(b * math.log(2) / math.log(10)), with log(2) / log(10) = 0.30103
FloorLog10Of2(b) ==
    (b \div 100000) * 30103 + ((b % 100000) * 30103) \div 100000

MAX_INT_BIT_LENGTH_FOR_EDITING == FloorLog2Of10(MAX_INT_DIGITS_FOR_EDITING)

\* A value as the delegate sees it: its class, whether is_known_type knows
\* the class, len() of a text, the number base^exp + plus of an int, and
\* the revision of its content (0: as it was, 1: edited).
Value(cls, known, len, base, exp, plus) ==
    [cls |-> cls, known |-> known, len |-> len,
     base |-> base, exp |-> exp, plus |-> plus, rev |-> 0]

Obj(cls)       == Value(cls, TRUE, 0, 0, 0, 0)
Custom(cls)    == Value(cls, FALSE, 0, 0, 0, 0)
Str(len)       == Value("str", TRUE, len, 0, 0, 0)
IntOf(base, exp, plus) == Value("int", TRUE, 0, base, exp, plus)

\* The value None, and the absence of a value.
NoValue == Value(None, TRUE, 0, 0, 0, 0)

\* The classes a class derives from.
Mro(cls) ==
    CASE cls = "datetime"    -> {"datetime", "date"}
      [] cls = "MaskedArray" -> {"MaskedArray", "ndarray"}
      [] OTHER               -> {cls}

isinstance(value, classes) == Mro(value.cls) \cap classes # {}

is_known_type(value) == value.known

is_text_string(value) == value.cls = "str"

\* is_editable_type(value): a known type that is one of the supported ones
is_editable_type(value) ==
    /\ is_known_type(value)
    /\ value.cls \in {"bool", "int", "float", "complex", "str", "list", "set",
                      "dict", "tuple", "ndarray", "MaskedArray", "DataFrame",
                      "Series", "Image", "date"}

\* int.bit_length() of base^exp + plus, for the ints of the model: powers
\* of two, and 1 or 2 or 10^exp + plus with exp >= 1 and plus in {0, 1}.
bit_length(value) ==
    IF value.base = 2 THEN value.exp + 1
    ELSE IF value.exp = 0 THEN 1 + value.plus
    ELSE FloorLog2Of10(value.exp) + 1

\* len(str(abs(value))): the number of decimal digits of the same ints.
DecimalDigits(value) ==
    IF value.base = 2 THEN FloorLog10Of2(value.exp) + 1
    ELSE value.exp + 1

\* readonly = (isinstance(value, (tuple, set)) or self.parent().readonly
\*             or not is_known_type(value))
readonly(value, parent_readonly) ==
    \/ isinstance(value, {"tuple", "set"})
    \/ parent_readonly
    \/ ~is_known_type(value)

too_large == <<"The value of this variable is too large to be edited.">>

\* What createEditor made: the editor (None: nothing), whether it went to
\* create_dialog, the readonly flag and the conv entry of its data, the
\* value the editor was set up with, the error box shown, and how many
\* times sig_editor_creation_started and sig_editor_shown were emitted.
Made(editor, dialog, ro, conv, value, error) ==
    [editor |-> editor, dialog |-> dialog, readonly |-> ro, conv |-> conv,
     value |-> value, error |-> error, started |-> 1, emitted |-> 1]

\* A return of CollectionsDelegate.createEditor with no
\* self.sig_editor_shown.emit() before it.
Silent(made) == [made EXCEPT !.emitted = 0]

\* ToggleColumnDelegate.createEditor emits no signal itself:
\* sig_editor_shown is emitted by create_dialog only.
Tree(made) ==
    [made EXCEPT !.started = 0, !.emitted = IF made.dialog THEN 1 ELSE 0]

Nothing(ro) == Made(None, FALSE, ro, FALSE, NoValue, <<>>)
Dialog(editor, ro, value) == Made(editor, TRUE, ro, FALSE, value, <<>>)
Inline(editor, value) == Made(editor, FALSE, FALSE, FALSE, value, <<>>)

\* np.array(value) of an image, and PIL.Image.fromarray(arr, mode=value.mode)
array(value) == [value EXCEPT !.cls = "ndarray"]
fromarray(arr) == [arr EXCEPT !.cls = "Image"]

\* conv_func = data.get('conv', lambda v: v)
conv_func(conv, v) == IF conv THEN fromarray(v) ELSE v

\* CollectionsDelegate.createEditor from the value on: the branch taken for
\* the entry e.  setup_ok is what setup_and_check of the editor answers.
CollectionsDelegate_editor(e, parent_readonly, object_explorer, setup_ok) ==
    LET value == e.value
        ro == readonly(value, parent_readonly)
    IN
    IF isinstance(value, {"void"}) THEN Nothing(ro)
    ELSE IF isinstance(value, {"list", "set", "frozenset", "tuple", "dict"})
            /\ ~object_explorer
    THEN Dialog("CollectionsEditor", ro, value)
    ELSE IF isinstance(value, {"ndarray", "MaskedArray"}) /\ ~object_explorer
    THEN IF setup_ok THEN Dialog("ArrayEditor", ro, value) ELSE Nothing(ro)
    ELSE IF isinstance(value, {"Image"}) /\ ~object_explorer
    THEN IF setup_ok
         THEN Made("ArrayEditor", TRUE, ro, TRUE, array(value), <<>>)
         ELSE Nothing(ro)
    ELSE IF isinstance(value, {"DataFrame", "Index", "Series"})
            /\ ~object_explorer
    THEN LET ro2 == IF e.type = T_Polars THEN TRUE ELSE ro IN
         IF setup_ok THEN Dialog("DataFrameEditor", ro2, value)
         ELSE Nothing(ro2)
    ELSE IF isinstance(value, {"date"}) /\ ~object_explorer
    THEN IF ro THEN Nothing(ro)
         ELSE IF isinstance(value, {"datetime"})
         THEN Inline("QDateTimeEdit", value)
         ELSE Inline("QDateEdit", value)
    ELSE IF is_text_string(value) /\ value.len > 40 /\ ~object_explorer
    THEN IF setup_ok THEN Dialog("TextEditor", ro, value)
         ELSE Silent(Nothing(ro))
    ELSE IF is_editable_type(value) /\ ~object_explorer
    THEN IF ro THEN Nothing(ro)
         ELSE IF isinstance(value, {"int"})
                 /\ bit_length(value) >= MAX_INT_BIT_LENGTH_FOR_EDITING
         THEN Made(None, FALSE, ro, FALSE, NoValue, too_large)
         ELSE Inline("QLineEdit", value)
    ELSE Dialog("ObjectExplorer", ro, value)

\* ToggleColumnDelegate.createEditor from the value on.
ToggleColumnDelegate_editor(e, parent_readonly, setup_ok) ==
    LET value == e.value
        ro == readonly(value, parent_readonly)
    IN
    Tree(
    IF isinstance(value, {"list", "set", "frozenset", "tuple", "dict"})
    THEN Dialog("CollectionsEditor", ro, value)
    ELSE IF isinstance(value, {"ndarray", "MaskedArray"})
    THEN IF setup_ok THEN Dialog("ArrayEditor", ro, value) ELSE Nothing(ro)
    ELSE IF isinstance(value, {"Image"})
    THEN IF setup_ok
         THEN Made("ArrayEditor", TRUE, ro, TRUE, array(value), <<>>)
         ELSE Nothing(ro)
    ELSE IF isinstance(value, {"DataFrame", "Index", "Series"})
    THEN IF setup_ok THEN Dialog("DataFrameEditor", ro, value)
         ELSE Nothing(ro)
    ELSE IF isinstance(value, {"date"})
    THEN IF ro THEN Nothing(ro)
         ELSE IF isinstance(value, {"datetime"})
         THEN Inline("QDateTimeEdit", value)
         ELSE Inline("QDateEdit", value)
    ELSE IF is_text_string(value) /\ value.len > 40
    THEN IF setup_ok THEN Dialog("TextEditor", ro, value) ELSE Nothing(ro)
    ELSE IF is_editable_type(value)
    THEN IF ro THEN Nothing(ro) ELSE Inline("QLineEdit", value)
    ELSE Nothing(ro))

(***************************************************************************)
(* The table model                                                         *)
(***************************************************************************)
VARIABLES
    store,        \* the Entry Store: the namespace, in insertion order
    keys,         \* key of each row
    types,        \* type tag of each row
    sizes,        \* size of each row
    rows_loaded,  \* PageWindow.loaded_count, the number of rows shown
    sort_column,  \* SortState.column
    sort_order,   \* SortState.direction
    last_error,   \* error of the latest mutation of the store, if any
    calls,        \* the blocking kernel call each caller is waiting in
    last_result,  \* how the latest finished kernel call ended
    editors,      \* CollectionsDelegate._editors: keys with an open editor
    kernel_ns,    \* the namespace as it is in the kernel
    outbox,       \* requests sent to the kernel and not yet executed
    delegate,     \* class of the delegate of the view
    sessions,     \* _editors of the delegate: the data of each open dialog
    current_index, \* ToggleColumnDelegate.current_index (a row, 0: None)
    old_obj,      \* ToggleColumnDelegate.old_obj
    shown,        \* what the latest createEditor was given and gave back
    accepted      \* what the latest editor_accepted did

vars == <<store, keys, types, sizes, rows_loaded, sort_column, sort_order,
          last_error, calls, last_result, editors, kernel_ns, outbox,
          delegate, sessions, current_index, old_obj, shown, accepted>>

\* The delegate of a view and the dialogs it has open.
dialogs == <<delegate, sessions, current_index, old_obj, shown, accepted>>

\* The state of the blocking calls and of the editors they open.
channel == <<calls, last_result, editors>>

\* The kernel's side of the namespace.
remote == <<kernel_ns, outbox>>

\* The fields of the table model proper.
table == <<store, keys, types, sizes, rows_loaded, sort_column, sort_order>>

NoError     == "NoError"
KeyConflict == "KeyConflict"

Ascending      == "Ascending"
Descending     == "Descending"
InsertionOrder == "InsertionOrder"

Orders == {Ascending, Descending, InsertionOrder}

\* The three row lists of a sequence of entries.
RowsOf(d) ==
    [keys  |-> [i \in 1..Len(d) |-> d[i].key],
     types |-> [i \in 1..Len(d) |-> d[i].type],
     sizes |-> [i \in 1..Len(d) |-> d[i].size]]

rowCount == rows_loaded

total_rows == Len(store)

\* The rows after sort(col, order) on the entries d, whose rows are shown
\* as cur when the sort starts.  A sort that cannot compare two sizes is
\* given up: keys and types stay, the sizes are left as list.sort() left
\* them.
SortOutcomes(d, col, order, cur) ==
    IF order = InsertionOrder THEN {RowsOf(d)}
    ELSE IF Sortable(d, col) THEN {RowsOf(sorted(d, col, order = Descending))}
    ELSE {[cur EXCEPT !.sizes = z] :
             z \in FailedSizeSort(cur.sizes, order = Descending)}

\* NextOrder with the third state forgotten: a header that only toggles.
NextOrder_Toggle(col) ==
    IF col # sort_column THEN Ascending
    ELSE IF sort_order = Ascending THEN Descending ELSE Ascending

\* The direction a click on the header of column col leads to.
NextOrder(col) ==
    IF col # sort_column THEN Ascending
    ELSE CASE sort_order = Ascending  -> Descending
           [] sort_order = Descending -> InsertionOrder
           [] OTHER                   -> Ascending

\* Number of rows shown when a namespace is first opened.
InitialRows(n) == Min(ROWS_TO_LOAD, n)

\* ResyncRows that keeps the count whatever the new total is.
ResyncRows_Keep(loaded, old, new) == loaded

\* ResyncRows that goes back to the first page.
ResyncRows_FirstPage(loaded, old, new) == InitialRows(new)

\* Rows kept loaded by a resynchronisation: the same share of the new total.
ResyncRows(loaded, old, new) ==
    IF old = 0 THEN InitialRows(new) ELSE (loaded * new) \div old

\* The two tables that share one NamepaceBrowserWidget: the Variable
\* Explorer and a nested editor opened from it.
Callers == {"explorer", "nested"}

\* Keys whose values are fetched and stored in the kernel.
ChannelKeys == {TestKey(3), K_Test3}

\* A blocking call to the kernel that has not returned yet.
Call(op, name, timeout) == [op |-> op, name |-> name, timeout |-> timeout]
Idle == Call(None, <<>>, NoTimeout)

\* How a finished call ended: the operation, the exception that the call
\* or the decoding raised inside it, and what the caller got.
Result(op, exc, outcome) == [op |-> op, cause |-> exc, outcome |-> outcome]
NoResult == Result(None, NoExc, Returned(None))

\* A request sent with blocking=False.
Request(op, name, new_name) == [op |-> op, name |-> name, new_name |-> new_name]

\* The view of a delegate: the class of the delegate, self.parent().readonly
\* and the object_explorer argument its createEditor is called with.
View(cls, ro, object_explorer) ==
    [cls |-> cls, readonly |-> ro, object_explorer |-> object_explorer]

\* The data create_dialog keeps in _editors for a dialog: key, readonly and
\* conv, with the value its editor holds (editor.get_value()) and the value
\* the entry had when the dialog was opened.
Session(key, ro, conv, value, original) ==
    [open |-> TRUE, key |-> key, readonly |-> ro, conv |-> conv,
     value |-> value, original |-> original]
NoSession ==
    [open |-> FALSE, key |-> <<>>, readonly |-> FALSE, conv |-> FALSE,
     value |-> NoValue, original |-> NoValue]

MaxSessions == 2

\* What createEditor was called on and what it made of it.
Shown(key, value, made) == [key |-> key, value |-> value, made |-> made]
NoShown == Shown(<<>>, NoValue, Tree(Nothing(FALSE)))

\* What editor_accepted did for the dialog of a key: whether it called
\* set_value, the key of the row the call went to, the value passed, the
\* error box shown, whether an exception left the handler, whether the
\* dialog was taken out of _editors, and the message of the exception
\* set_value raised (Failed).
Accepted(key, ro, stored, target, value, error, raised, popped) ==
    [key |-> key, readonly |-> ro, stored |-> stored, target |-> target,
     value |-> value, error |-> error, raised |-> raised, popped |-> popped,
     failure |-> <<>>]
Failed(a, text) == [a EXCEPT !.failure = text]
NoAccepted == Accepted(<<>>, FALSE, FALSE, <<>>, NoValue, <<>>, FALSE, FALSE)

\* The state after a view on the namespace d is made.
Opened(d, view) ==
    /\ store = d
    /\ keys = RowsOf(store).keys
    /\ types = RowsOf(store).types
    /\ sizes = RowsOf(store).sizes
    /\ rows_loaded = InitialRows(Len(store))
    /\ sort_column = COL_KEY
    /\ sort_order = InsertionOrder
    /\ last_error = NoError
    /\ calls = [c \in Callers |-> Idle]
    /\ last_result = NoResult
    /\ editors = {}
    /\ kernel_ns = store
    /\ outbox = <<>>
    /\ delegate = view
    /\ sessions = [s \in 1..MaxSessions |-> NoSession]
    /\ current_index = 0
    /\ old_obj = NoValue
    /\ shown = NoShown
    /\ accepted = NoAccepted

Init ==
    \E d \in Snapshots : Opened(d, View("CollectionsDelegate", FALSE, FALSE))

\* request_sort(column): a click on a column header.
sort(col) ==
    LET order == NextOrder(col)
        cur == [keys |-> keys, types |-> types, sizes |-> sizes]
    IN  /\ \E r \in SortOutcomes(store, col, order, cur) :
              /\ keys' = r.keys
              /\ types' = r.types
              /\ sizes' = r.sizes
        /\ sort_column' = col
        /\ sort_order' = order
        /\ UNCHANGED <<store, rows_loaded, last_error, channel, remote, dialogs>>

\* fetchMore without the clamp to the number of entries.
fetchMore_NoClamp ==
    /\ rows_loaded' = IF rows_loaded < total_rows
                      THEN rows_loaded + ROWS_TO_LOAD
                      ELSE rows_loaded
    /\ UNCHANGED <<store, keys, types, sizes, sort_column, sort_order,
                   last_error, channel, remote, dialogs>>

\* fetchMore that loads one page and then stops.
fetchMore_OnePage ==
    /\ rows_loaded' = IF rows_loaded < Min(ROWS_TO_LOAD, total_rows)
                      THEN Min(rows_loaded + ROWS_TO_LOAD, total_rows)
                      ELSE rows_loaded
    /\ UNCHANGED <<store, keys, types, sizes, sort_column, sort_order,
                   last_error, channel, remote, dialogs>>

\* request_more_rows()
fetchMore ==
    /\ rows_loaded' = IF rows_loaded < total_rows
                      THEN Min(rows_loaded + ROWS_TO_LOAD, total_rows)
                      ELSE rows_loaded
    /\ UNCHANGED <<store, keys, types, sizes, sort_column, sort_order,
                   last_error, channel, remote, dialogs>>

\* replace_all(entries): full resynchronisation with the namespace as it
\* is now; the rows are rebuilt and the active sort is applied again.
Resync(d) ==
    /\ store' = d
    /\ kernel_ns' = d
    /\ \E r \in SortOutcomes(d, sort_column, sort_order, RowsOf(d)) :
          /\ keys' = r.keys
          /\ types' = r.types
          /\ sizes' = r.sizes
    /\ rows_loaded' = ResyncRows(rows_loaded, Len(store), Len(d))
    /\ last_error' = NoError
    /\ UNCHANGED <<sort_column, sort_order, channel, outbox, dialogs>>

\* replace_all(entries)
set_data(d) ==
    /\ d \in Snapshots
    /\ Resync(d)

\* d[k] = e on a dict: a new key goes to the end, a known key keeps its place.
Assign(d, e) ==
    IF HasKey(d, e.key)
    THEN [i \in 1..Len(d) |-> IF d[i].key = e.key THEN e ELSE d[i]]
    ELSE Append(d, e)

\* insert(key, descriptor)
new_value(e) ==
    /\ e \in Bindings(e.key)
    /\ Resync(Assign(store, e))

\* Renamed that leaves the entry under its old key as well.
Renamed_KeepOld(d, old, new) ==
    Append(d, [Lookup(d, old) EXCEPT !.key = new])

\* Renamed that gives the entry its new key where it is.
Renamed_InPlace(d, old, new) ==
    [i \in 1..Len(d) |-> IF d[i].key = old THEN [d[i] EXCEPT !.key = new]
                         ELSE d[i]]

\* The store after rename(old, new): the entry leaves its place and is
\* inserted again under the new key.
Renamed(d, old, new) ==
    Append(Without(d, {old}), [Lookup(d, old) EXCEPT !.key = new])

\* rename that overwrites the entry of an existing key.
rename_item_Overwrite(old, new) ==
    /\ HasKey(store, old)
    /\ Resync(Append(Without(store, {old, new}),
                     [Lookup(store, old) EXCEPT !.key = new]))

\* rename(old, new): refused with KeyConflict when new is already a key.
rename_item(old, new) ==
    /\ HasKey(store, old)
    /\ IF HasKey(store, new)
       THEN /\ last_error' = KeyConflict
            /\ UNCHANGED <<table, channel, remote, dialogs>>
       ELSE Resync(Renamed(store, old, new))

\* remove(keys)
remove_item(ks) ==
    /\ ks # {}
    /\ ks \subseteq Range(keys)
    /\ Resync(Without(store, ks))

\* Row at which the list of keys ks shows the key k.
RowOf(ks, k) == CHOOSE i \in 1..Len(ks) : ks[i] = k

LARGE_COLLECTION == 100000
LARGE_ARRAY == 5000000

RECURSIVE Product(_)
\* functools.reduce(operator.mul, shape)
Product(d) == IF d = <<>> THEN 1 ELSE Head(d) * Product(Tail(d))

T_dict   == <<100, 105, 99, 116>>            \* "dict"
T_Series == <<83, 101, 114, 105, 101, 115>>   \* "Series"

\* sub in text
Contains(text, sub) ==
    \E i \in 0..(Len(text) - Len(sub)) :
        SubSeq(text, i + 1, i + Len(sub)) = sub

\* What show_warning gives back: a flag, or an exception.
Flag(b) == [raised |-> FALSE, cls |-> None, flag |-> b]
FlagRaises(cls) == [raised |-> TRUE, cls |-> cls, flag |-> FALSE]

\* show_warning(index), from the texts the row shows as type and size.
\* The text of a count is parsed by int(); that of a shape is not, and
\* int() raises ValueError.  In the second branch a count is a shape of one
\* dimension, and "()" makes reduce raise, which the branch catches.
show_warning(val_type, val_size) ==
    IF val_type \in {T_list, T_set, T_tuple, T_dict}
    THEN IF val_size.scalar
         THEN Flag(val_size.n > LARGE_COLLECTION)
         ELSE FlagRaises("ValueError")
    ELSE IF \/ val_type \in {T_DataFrame, T_Series}
            \/ Contains(val_type, <<65, 114, 114, 97, 121>>)     \* 'Array'
            \/ Contains(val_type, <<73, 110, 100, 101, 120>>)    \* 'Index'
    THEN IF val_size.scalar
         THEN Flag(val_size.n > LARGE_ARRAY)
         ELSE IF val_size.dims = <<>>
         THEN Flag(FALSE)
         ELSE Flag(Product(val_size.dims) > LARGE_ARRAY)
    ELSE Flag(FALSE)

invalid_literal == <<"invalid literal for int() with base 10">>

\* The call of get_value that createEditor makes for the key k.
Fetch(k) == Call("get_value", k, Timeout(CALL_KERNEL_TIMEOUT))

\* The warning dialog of createEditor, waiting for its answer.
Warning(k) == Call("warning", k, NoTimeout)

\* createEditor that calls get_value without asking.
createEditor_NoWarning(c, k) ==
    /\ calls[c] = Idle
    /\ k \in ChannelKeys
    /\ k \in Range(keys)
    /\ calls' = [calls EXCEPT ![c] = Fetch(k)]
    /\ UNCHANGED <<table, last_error, last_result, editors, remote, dialogs>>

\* createEditor(index) of caller c on the row of key k, up to the warning
\* dialog or, without one, up to the blocking call of get_value.  An
\* exception of show_warning leaves createEditor at once.
createEditor(c, k) ==
    /\ calls[c] = Idle
    /\ k \in ChannelKeys
    /\ k \in Range(keys)
    /\ LET i == RowOf(keys, k)
           w == show_warning(types[i], sizes[i])
       IN  IF w.raised
           THEN /\ last_result' =
                       Result("show_warning", Exc(w.cls, invalid_literal, <<>>),
                              Raised(w.cls, invalid_literal))
                /\ UNCHANGED calls
           ELSE /\ calls' = [calls EXCEPT ![c] =
                                IF w.flag THEN Warning(k) ELSE Fetch(k)]
                /\ UNCHANGED last_result
    /\ UNCHANGED <<table, last_error, editors, remote, dialogs>>

\* The user answers the warning: "No" ends createEditor, "Yes" lets it go
\* on to the blocking call of get_value.
warning_answered(c) ==
    /\ calls[c].op = "warning"
    /\ \E answer \in {"Yes", "No"} :
          calls' = [calls EXCEPT ![c] =
                       IF answer = "No" THEN Idle ELSE Fetch(calls[c].name)]
    /\ UNCHANGED <<table, last_error, last_result, editors, remote, dialogs>>

\* createEditor that registers an editor whatever get_value did.
fetch_returns_AlwaysOpens(c) ==
    /\ calls[c].op = "get_value"
    /\ \E reply \in Replies, host \in Hosts :
          /\ last_result' = Result("get_value", reply.exc, get_value(reply, host))
          /\ editors' = editors \cup {calls[c].name}
    /\ calls' = [calls EXCEPT ![c] = Idle]
    /\ UNCHANGED <<table, last_error, remote, dialogs>>

\* The blocking get_value of caller c returns or raises, and createEditor
\* goes on: an exception is shown and no editor is made; a value gets its
\* editor, registered by create_dialog.
fetch_returns(c) ==
    /\ calls[c].op = "get_value"
    /\ \E reply \in Replies, host \in Hosts :
          LET r == get_value(reply, host) IN
          /\ last_result' = Result("get_value", reply.exc, r)
          /\ editors' = IF r.raised \/ r.value = None
                        THEN editors
                        ELSE editors \cup {calls[c].name}
    /\ calls' = [calls EXCEPT ![c] = Idle]
    /\ UNCHANGED <<table, last_error, remote, dialogs>>

\* namespacebrowser.get_value(name) is called, by any caller, on a host
\* and with a reply of the kernel, and ends; the result keeps what the
\* call was made of.
get_value_called(reply, host) ==
    /\ last_result' = [op |-> "get_value", cause |-> reply.exc,
                       outcome |-> get_value(reply, host),
                       kernel_call_success |-> reply.kernel_call_success,
                       host |-> host]
    /\ UNCHANGED <<table, last_error, calls, editors, remote, dialogs>>

\* set_value(name, value) of caller c, up to the blocking call: a value
\* that cloudpickle.dumps cannot encode raises before anything is sent.
store_value(c, k) ==
    /\ calls[c] = Idle
    /\ k \in ChannelKeys
    /\ \E picklable \in BOOLEAN :
          IF picklable
          THEN /\ calls' = [calls EXCEPT ![c] = Call("set_value", k, NoTimeout)]
               /\ UNCHANGED last_result
          ELSE /\ last_result' =
                      Result("set_value", Exc("PicklingError", cannot_pickle, <<>>),
                             Raised("PicklingError", cannot_pickle))
               /\ UNCHANGED calls
    /\ UNCHANGED <<table, last_error, editors, remote, dialogs>>

\* The blocking call of set_value returns or raises in caller c.  Without
\* a timeout argument the call may also never return: then this step
\* does not happen.
store_returns(c) ==
    /\ calls[c].op = "set_value"
    /\ \E reply \in SetReplies :
          last_result' = Result("set_value", reply.exc, set_value(reply))
    /\ calls' = [calls EXCEPT ![c] = Idle]
    /\ UNCHANGED <<table, last_error, editors, remote, dialogs>>

MaxOutbox == 2

\* remove_value that takes the entry out of the store itself.
remove_value_Local(name) ==
    /\ Len(outbox) < MaxOutbox
    /\ name \in ChannelKeys
    /\ outbox' = Append(outbox, Request("remove_value", name, <<>>))
    /\ store' = Without(store, {name})
    /\ keys' = RowsOf(store').keys
    /\ types' = RowsOf(store').types
    /\ sizes' = RowsOf(store').sizes
    /\ rows_loaded' = Min(rows_loaded, Len(store'))
    /\ UNCHANGED <<sort_column, sort_order, last_error, channel, kernel_ns, dialogs>>

\* remove_value(name): sent with blocking=False
remove_value(name) ==
    /\ Len(outbox) < MaxOutbox
    /\ name \in ChannelKeys
    /\ outbox' = Append(outbox, Request("remove_value", name, <<>>))
    /\ UNCHANGED <<table, last_error, channel, kernel_ns, dialogs>>

\* copy_value(orig_name, new_name): sent with blocking=False
copy_value(orig_name, new_name) ==
    /\ Len(outbox) < MaxOutbox
    /\ orig_name \in ChannelKeys
    /\ outbox' = Append(outbox, Request("copy_value", orig_name, new_name))
    /\ UNCHANGED <<table, last_error, channel, kernel_ns, dialogs>>

\* The namespace of the kernel after it has executed a request.
Executed(ns, r) ==
    IF r.op = "remove_value" THEN Without(ns, {r.name})
    ELSE IF HasKey(ns, r.name)
    THEN Assign(ns, [Lookup(ns, r.name) EXCEPT !.key = r.new_name])
    ELSE ns

\* The kernel executes the oldest request it was sent.
kernel_executes ==
    /\ outbox # <<>>
    /\ kernel_ns' = Executed(kernel_ns, Head(outbox))
    /\ outbox' = Tail(outbox)
    /\ UNCHANGED <<table, last_error, channel, dialogs>>

\* replace_all with the namespace of the kernel, after its notification.
refresh ==
    /\ Resync(kernel_ns)

(***************************************************************************)
(* The Editor Session Manager: the delegate of a view on local data        *)
(***************************************************************************)
\* The type text of a row, from the class of its value.
TypeTag(value) ==
    CASE value.cls = "int"       -> T_int
      [] value.cls = "str"       -> T_str
      [] value.cls = "date"      -> T_date
      [] value.cls = "datetime"  -> T_datetime
      [] value.cls = "list"      -> T_list
      [] value.cls = "tuple"     -> T_tuple
      [] value.cls = "set"       -> T_set
      [] value.cls = "frozenset" -> T_frozenset
      [] value.cls = "dict"      -> T_dict
      [] value.cls = "ndarray"   -> T_Array
      [] value.cls = "Image"     -> T_Image
      [] value.cls = "DataFrame" -> T_DataFrame
      [] value.cls = "void"      -> T_void
      [] OTHER                   -> T_Point

\* The ints a delegate is asked to edit: small ones, 10^exp + 1 as in
\* test_edit_large_int, and powers of two around the bit length limit.
IntValues ==
    {IntOf(10, 0, 0), IntOf(10, 32765, 1), IntOf(10, 32766, 1),
     IntOf(10, 32767, 1), IntOf(2, 108847, 0), IntOf(2, 108848, 0),
     IntOf(2, 108851, 0)}

\* The values a delegate is asked to edit, one or more of each branch of
\* createEditor.
DelegateValues ==
    IntValues
    \cup {Str(3), Str(42), NoValue, Custom("Point"), Obj("Point")}
    \cup {Obj(cls) : cls \in {"date", "datetime", "list", "tuple", "set",
                              "frozenset", "dict", "ndarray", "Image",
                              "DataFrame", "void"}}

\* A row for a value; a pandas frame made from a Polars one is told by the
\* type text of its row.
Item(k, value) == Entry(k, TypeTag(value), Count(1), value)
PolarsItem(k) == Entry(k, T_Polars, Count(1), Obj("DataFrame"))

DelegateEntries ==
    {Item(TestKey(3), v) : v \in DelegateValues} \cup {PolarsItem(TestKey(3))}

\* The data of the views whose dialogs are followed to their end: a list
\* and a tuple as in test_edit_mutable_and_immutable_types, or an image.
SessionSnapshots ==
    {<<Item(TestKey(20), Obj("list")), Item(K_Test3, Obj("tuple"))>>,
     <<Item(TestKey(3), Obj("Image"))>>}

\* The views of the model: a table with a CollectionsDelegate, in or
\* outside the object explorer, or a tree with a ToggleColumnDelegate.
Views ==
    {View("CollectionsDelegate", ro, oe) : ro \in BOOLEAN, oe \in BOOLEAN}
        \cup {View("ToggleColumnDelegate", ro, FALSE) : ro \in BOOLEAN}

\* A view on one value of any kind.  A table that is read-only is the
\* view of a dialog (nested_view).
InitDispatch ==
    \E e \in DelegateEntries, view \in Views :
        /\ view.cls = "CollectionsDelegate" => ~view.readonly
        /\ Opened(<<e>>, view)

\* A view that can be edited, of either kind.
InitSession ==
    \E d \in SessionSnapshots, view \in Views :
        /\ ~view.readonly
        /\ ~view.object_explorer
        /\ Opened(d, view)

\* The value after the user has changed it.
Edited(value) == [value EXCEPT !.rev = 1]

\* model.set_value(index, value): the entry of the key gets the value.
SetValue(d, k, v) ==
    [i \in 1..Len(d) |-> IF d[i].key = k THEN [d[i] EXCEPT !.value = v]
                         ELSE d[i]]

\* model.get_index_from_key(key): the row that shows the key now (0: an
\* invalid index).
get_index_from_key(ks, key) ==
    IF key \in Range(ks) THEN RowOf(ks, key) ELSE 0

\* The keys of the open dialogs.
OpenKeys(ss) == {ss[s].key : s \in {x \in 1..MaxSessions : ss[x].open}}

\* The first free place for a dialog (0: none).
FreeSlot ==
    IF \E s \in 1..MaxSessions : ~sessions[s].open
    THEN CHOOSE s \in 1..MaxSessions :
            /\ ~sessions[s].open
            /\ \A x \in 1..(s - 1) : sessions[x].open
    ELSE 0

\* create_dialog(editor, data) for what createEditor made of the key k.
create_dialog(k, made, original) ==
    /\ FreeSlot # 0
    /\ sessions' = [sessions EXCEPT ![FreeSlot] =
                       Session(k, made.readonly, made.conv, made.value, original)]
    /\ editors' = editors \cup {k}

retrieve_error ==
    <<"Spyder was unable to retrieve the value of this variable from the console.">>
set_error ==
    <<"Spyder was unable to set this variable in the console to the new value.">>

\* CollectionsDelegate.createEditor on the cell of the row of the key k
\* in the given column, of a view on local data, where get_value returns
\* at once.
createEditor_local(k, column, answer, setup_ok) ==
    /\ delegate.cls = "CollectionsDelegate"
    /\ k \in Range(keys)
    /\ HasKey(store, k)
    /\ LET i == RowOf(keys, k)
           w == show_warning(types[i], sizes[i])
           e == Lookup(store, k)
           made == CollectionsDelegate_editor(e, delegate.readonly,
                                              delegate.object_explorer, setup_ok)
       IN  /\ column < 3 \/ ~w.raised
           /\ IF column < 3
              THEN /\ shown' = Shown(k, NoValue, Silent(Nothing(FALSE)))
                   /\ UNCHANGED <<sessions, editors>>
              ELSE IF w.flag /\ answer = "No"
              THEN /\ shown' = Shown(k, NoValue, Nothing(FALSE))
                   /\ UNCHANGED <<sessions, editors>>
              ELSE IF e.value = NoValue
              THEN /\ shown' = Shown(k, NoValue, Silent(Nothing(FALSE)))
                   /\ UNCHANGED <<sessions, editors>>
              ELSE /\ shown' = Shown(k, e.value, made)
                   /\ IF made.dialog
                      THEN create_dialog(k, made, e.value)
                      ELSE UNCHANGED <<sessions, editors>>
    /\ UNCHANGED <<table, last_error, calls, last_result, remote,
                   delegate, current_index, old_obj, accepted>>

\* ToggleColumnDelegate.createEditor on the row of the key k.  copy_ok
\* tells whether value.copy() or copy.deepcopy(value) gave a copy.
ToggleColumnDelegate_createEditor(k, answer, setup_ok, copy_ok) ==
    /\ delegate.cls = "ToggleColumnDelegate"
    /\ k \in Range(keys)
    /\ HasKey(store, k)
    /\ LET i == RowOf(keys, k)
           w == show_warning(types[i], sizes[i])
           e == Lookup(store, k)
           made == ToggleColumnDelegate_editor(e, delegate.readonly, setup_ok)
       IN  /\ ~w.raised
           /\ IF w.flag /\ answer = "No"
              THEN /\ shown' = Shown(k, NoValue, Tree(Nothing(FALSE)))
                   /\ UNCHANGED <<sessions, editors, current_index, old_obj>>
              ELSE IF ~copy_ok
              THEN /\ shown' = Shown(k, NoValue,
                                     Tree(Made(None, FALSE, FALSE, FALSE,
                                               NoValue, retrieve_error)))
                   /\ UNCHANGED <<sessions, editors, current_index, old_obj>>
              ELSE IF e.value = NoValue
              THEN /\ shown' = Shown(k, NoValue, Tree(Nothing(FALSE)))
                   /\ old_obj' = NoValue
                   /\ UNCHANGED <<sessions, editors, current_index>>
              ELSE /\ shown' = Shown(k, e.value, made)
                   /\ old_obj' = e.value
                   /\ current_index' = i
                   /\ IF made.dialog
                      THEN create_dialog(k, made, e.value)
                      ELSE UNCHANGED <<sessions, editors>>
    /\ UNCHANGED <<table, last_error, calls, last_result, remote,
                   delegate, accepted>>

\* The user changes the value in the editor of the dialog s.
editor_edits(s) ==
    /\ sessions[s].open
    /\ sessions[s].value.rev = 0
    /\ sessions' = [sessions EXCEPT ![s].value = Edited(@)]
    /\ UNCHANGED <<table, last_error, channel, remote,
                   delegate, current_index, old_obj, shown, accepted>>

\* The editor of the dialog s of a tree changes the object it was given
\* in place, as the user types.
mutates_in_place(s) ==
    /\ delegate.cls = "ToggleColumnDelegate"
    /\ sessions[s].open
    /\ ~sessions[s].readonly
    /\ HasKey(store, sessions[s].key)
    /\ Lookup(store, sessions[s].key).value.rev = 0
    /\ store' = SetValue(store, sessions[s].key,
                         Edited(Lookup(store, sessions[s].key).value))
    /\ kernel_ns' = store'
    /\ sessions' = [sessions EXCEPT ![s].value = Edited(@)]
    /\ UNCHANGED <<keys, types, sizes, rows_loaded, sort_column, sort_order,
                   last_error, channel, outbox,
                   delegate, current_index, old_obj, shown, accepted>>

\* The exceptions set_value of a model on the kernel's namespace can
\* raise (namespacebrowser.set_value), NoExc: none.
StoreFailures ==
    {Exc("PicklingError", cannot_pickle, <<>>),
     Exc("ValueError", msg(reason_mismatched_numpy_set), <<>>)}

\* if not data['readonly'], with the readonly test left out
Stores_Always(data) == TRUE

\* if not data['readonly']
Stores(data) == ~data.readonly

\* self._editors.pop(editor_id)
pop(s) ==
    /\ sessions' = [sessions EXCEPT ![s] = NoSession]
    /\ editors' = OpenKeys(sessions')

\* CollectionsDelegate.editor_accepted(editor_id) for the dialog s.
editor_accepted(s) ==
    /\ delegate.cls = "CollectionsDelegate"
    /\ sessions[s].open
    /\ LET data == sessions[s]
           index == get_index_from_key(keys, data.key)
           v == conv_func(data.conv, data.value)
       IN  IF ~Stores(data)
           THEN /\ accepted' = Accepted(data.key, data.readonly, FALSE, <<>>,
                                        NoValue, <<>>, FALSE, TRUE)
                /\ UNCHANGED <<store, kernel_ns>>
           ELSE IF index = 0
           THEN /\ accepted' = Accepted(data.key, data.readonly, FALSE, <<>>,
                                        v, <<>>, FALSE, TRUE)
                /\ UNCHANGED <<store, kernel_ns>>
           ELSE \E e \in {NoExc} \cup StoreFailures :
                  IF e = NoExc
                  THEN /\ store' = SetValue(store, keys[index], v)
                       /\ kernel_ns' = store'
                       /\ accepted' = Accepted(data.key, data.readonly, TRUE,
                                               keys[index], v, <<>>, FALSE, TRUE)
                  ELSE /\ accepted' = Failed(Accepted(data.key, data.readonly,
                                                      TRUE, keys[index], v,
                                                      set_error \o e.text,
                                                      FALSE, TRUE),
                                             e.text)
                       /\ UNCHANGED <<store, kernel_ns>>
    /\ pop(s)
    /\ UNCHANGED <<keys, types, sizes, rows_loaded, sort_column, sort_order,
                   last_error, calls, last_result, outbox,
                   delegate, current_index, old_obj, shown>>

\* ToggleColumnDelegate.editor_accepted(editor_id) for the dialog s.  The
\* index is self.current_index; when its row is no longer there, the model
\* either raises or does nothing.
ToggleColumnDelegate_editor_accepted(s) ==
    /\ delegate.cls = "ToggleColumnDelegate"
    /\ sessions[s].open
    /\ LET data == sessions[s]
           index == current_index
           v == conv_func(data.conv, data.value)
       IN  IF ~(Stores(data) /\ index # 0)
           THEN /\ accepted' = Accepted(data.key, data.readonly, FALSE, <<>>,
                                        NoValue, <<>>, FALSE, TRUE)
                /\ pop(s)
                /\ UNCHANGED <<store, kernel_ns>>
           ELSE \E e \in {NoExc} \cup StoreFailures
                           \cup {Exc("IndexError", <<"list index out of range">>, <<>>)} :
                  /\ e.cls = "IndexError" => index > Len(keys)
                  /\ (e # NoExc /\ e.cls # "IndexError") => index <= Len(keys)
                  /\ IF e = NoExc
                     THEN /\ IF index <= Len(keys)
                             THEN /\ store' = SetValue(store, keys[index], v)
                                  /\ accepted' =
                                        Accepted(data.key, data.readonly, TRUE,
                                                 keys[index], v, <<>>, FALSE, TRUE)
                             ELSE /\ store' = store
                                  /\ accepted' =
                                        Accepted(data.key, data.readonly, FALSE,
                                                 <<>>, v, <<>>, FALSE, TRUE)
                          /\ kernel_ns' = store'
                          /\ pop(s)
                     ELSE /\ accepted' =
                                Failed(Accepted(data.key, data.readonly, TRUE,
                                                IF index <= Len(keys)
                                                THEN keys[index] ELSE <<>>,
                                                v, <<>>, TRUE, FALSE),
                                       e.text)
                          /\ UNCHANGED <<store, kernel_ns, sessions, editors>>
    /\ UNCHANGED <<keys, types, sizes, rows_loaded, sort_column, sort_order,
                   last_error, calls, last_result, outbox,
                   delegate, current_index, old_obj, shown>>

\* CollectionsDelegate.editor_rejected(editor_id) for the dialog s.
editor_rejected(s) ==
    /\ delegate.cls = "CollectionsDelegate"
    /\ sessions[s].open
    /\ pop(s)
    /\ UNCHANGED <<table, last_error, calls, last_result, remote,
                   delegate, current_index, old_obj, shown, accepted>>

\* str of the KeyError of self._editors[editor_id]
no_editor_id == <<"KeyError", "editor_id">>

\* editor_accepted(editor_id), of either delegate, when the accepted signal
\* arrives again for the dialog that an earlier editor_accepted took out of
\* _editors: data = self._editors[editor_id] raises KeyError.
editor_accepted_again ==
    /\ accepted.popped
    /\ accepted' = Failed(Accepted(accepted.key, FALSE, FALSE, <<>>, NoValue,
                                   <<>>, TRUE, FALSE),
                          no_editor_id)
    /\ UNCHANGED <<table, last_error, channel, remote,
                   delegate, sessions, current_index, old_obj, shown>>

\* CollectionsDelegate.editor_rejected(editor_id) when the rejected signal
\* arrives for the dialog that editor_accepted took out of _editors: pop
\* raises KeyError, which is passed over, and free_memory is called.
editor_rejected_again ==
    /\ delegate.cls = "CollectionsDelegate"
    /\ accepted.popped
    /\ UNCHANGED vars

\* restore_object(): the object of the tree item at current_index becomes
\* old_obj again.
restore_object(d) ==
    IF current_index # 0 /\ old_obj # NoValue /\ current_index <= Len(keys)
    THEN SetValue(d, keys[current_index], old_obj)
    ELSE d

\* ToggleColumnDelegate.editor_rejected(editor_id) for the dialog s.
ToggleColumnDelegate_editor_rejected(s) ==
    /\ delegate.cls = "ToggleColumnDelegate"
    /\ sessions[s].open
    /\ store' = restore_object(store)
    /\ kernel_ns' = store'
    /\ pop(s)
    /\ UNCHANGED <<keys, types, sizes, rows_loaded, sort_column, sort_order,
                   last_error, calls, last_result, outbox,
                   delegate, current_index, old_obj, shown, accepted>>

\* editor.setup(value, key, readonly=readonly): the CollectionsEditor of the
\* dialog s has a view of its own on the value, read-only as the dialog
\* is, with a delegate of its own; e is what the user finds in it.
nested_view(s, e) ==
    /\ sessions[s].open
    /\ isinstance(sessions[s].original,
                  {"list", "set", "frozenset", "tuple", "dict"})
    /\ e \in DelegateEntries
    /\ store' = <<e>>
    /\ keys' = RowsOf(store').keys
    /\ types' = RowsOf(store').types
    /\ sizes' = RowsOf(store').sizes
    /\ rows_loaded' = InitialRows(Len(store'))
    /\ sort_column' = COL_KEY
    /\ sort_order' = InsertionOrder
    /\ kernel_ns' = store'
    /\ delegate' = View("CollectionsDelegate", sessions[s].readonly, FALSE)
    /\ sessions' = [x \in 1..MaxSessions |-> NoSession]
    /\ editors' = {}
    /\ current_index' = 0
    /\ old_obj' = NoValue
    /\ shown' = NoShown
    /\ accepted' = NoAccepted
    /\ UNCHANGED <<last_error, calls, last_result, outbox>>

(***************************************************************************)
(* Data functions and refresh                                              *)
(***************************************************************************)

\* A view whose delegate was given a data function (data_function: whether
\* it is not None); data is the class of what the function returns, the
\* current state of the object the view was opened on (kernel_ns).
\* "namespace": the view is the namespace browser's, and the data function
\* of a dialog fetches the name from the kernel.
DataView(cls, data, data_function) ==
    [cls |-> cls, readonly |-> FALSE, object_explorer |-> FALSE,
     data |-> data, data_function |-> data_function]

DataClasses == {"dict", "list", "set", "object"}

DataViews ==
    {DataView("CollectionsDelegate", c, f) :
        c \in DataClasses \cup {"namespace"}, f \in BOOLEAN}
        \cup {DataView("ToggleColumnDelegate", "object", f) : f \in BOOLEAN}

\* What a call of a data function ends with: the value returned (NoValue:
\* None), or the class of the exception raised.
Yields(v) == [error |-> "", value |-> v]
Fails(cls) == [error |-> cls, value |-> NoValue]

\* data[key] of a list or tuple with the row of the view as the key, read
\* as data[0]: the first element whatever the key
datafun_First(data_cls, data, key, row) ==
    IF data = <<>> THEN Fails("IndexError") ELSE Yields(data[1].value)

\* datafun() of CollectionsDelegate.make_data_function, with data the
\* result of self.data_function().  key is index.model().keys[index.row()]
\* as it was when the function was made; for a list or a tuple the keys of
\* the model are the positions, so the key stands for the row it was
\* taken from.
datafun(data_cls, data, key, row) ==
    IF data_cls \in {"tuple", "list"}
    THEN IF row <= Len(data) THEN Yields(data[row].value)
         ELSE Fails("IndexError")
    ELSE IF data_cls = "dict"
    THEN IF HasKey(data, key) THEN Yields(Lookup(data, key).value)
         ELSE Fails("KeyError")
    ELSE IF data_cls = "set"
    THEN Fails("TypeError")
    ELSE IF HasKey(data, key) THEN Yields(Lookup(data, key).value)
         ELSE Yields(NoValue)

\* datafun() of ToggleColumnDelegate.make_data_function for an item whose
\* obj_path is 'name.key': path_elements is the one attribute name.
ToggleColumnDelegate_datafun(data, key) ==
    IF HasKey(data, key) THEN Yields(Lookup(data, key).value)
    ELSE Yields(NoValue)

\* The data function of a dialog opened from the namespace browser:
\* shellwidget.get_value(name).
remote_datafun(ns, name) ==
    IF HasKey(ns, name) THEN Yields(Lookup(ns, name).value)
    ELSE Fails("KeyError")

\* What the data function of the dialog s returns now.
accessor(s) ==
    LET key == sessions[s].key IN
    IF delegate.data = "namespace" THEN remote_datafun(kernel_ns, key)
    ELSE IF delegate.cls = "ToggleColumnDelegate"
    THEN ToggleColumnDelegate_datafun(kernel_ns, key)
    ELSE datafun(delegate.data, kernel_ns, key, IndexOf(store, key))

\* if self.data_function is None: return None; the refresh action of an
\* editor is enabled when it was given a data function.
refresh_enabled(data_function) == data_function

\* No question is asked before a refresh
confirms_Never(value) == FALSE

\* Whether the editor holds edits that were not saved, so that a refresh
\* asks "Do you want to continue?" first.
confirms(value) == value.rev = 1

\* No exception of the data function closes the editor
fatal_Never(cls) == FALSE

\* The exception of the data function that says the variable no longer
\* exists.
fatal(cls) == cls = "KeyError"

\* What a refresh did: the key of the dialog, how many questions were
\* asked and how many critical boxes shown, whether the editor was
\* rejected, whether its value was replaced, and the class of the
\* exception that left the handler.
Refreshed(key, questions, criticals, rejected, replaced, raised) ==
    [op |-> "refresh", key |-> key, questions |-> questions,
     criticals |-> criticals, rejected |-> rejected, replaced |-> replaced,
     raised |-> raised]

\* The refresh action of the editor of the dialog s is triggered; answer is
\* what the user answers if asked.
refresh_action_triggered(s, answer) ==
    /\ sessions[s].open
    /\ refresh_enabled(delegate.data_function)
    /\ LET key == sessions[s].key
           q == IF confirms(sessions[s].value) THEN 1 ELSE 0
           r == accessor(s)
       IN  IF q = 1 /\ answer = "No"
           THEN /\ last_result' = Refreshed(key, q, 0, FALSE, FALSE, "")
                /\ UNCHANGED <<sessions, editors>>
           ELSE IF r.error # "" /\ fatal(r.error)
           THEN /\ last_result' = Refreshed(key, q, 1, TRUE, FALSE, "")
                /\ pop(s)
           ELSE IF r.error # ""
           THEN /\ last_result' = Refreshed(key, q, 0, FALSE, FALSE, r.error)
                /\ UNCHANGED <<sessions, editors>>
           ELSE /\ last_result' = Refreshed(key, q, 0, FALSE, TRUE, "")
                /\ sessions' = [sessions EXCEPT ![s].value = r.value]
                /\ UNCHANGED editors
    /\ UNCHANGED <<table, last_error, calls, remote,
                   delegate, current_index, old_obj, shown, accepted>>

\* The elements of the object a view is opened on.
Element_a == Item(TestKey(20), Obj("list"))
Element_b == Item(K_Test3, Obj("tuple"))

\* The object as it is when the view is opened, and after an element
\* changed its value, the elements were reordered, the first one was
\* removed.
DataStates ==
    {<<Element_a, Element_b>>,
     <<Item(TestKey(20), Obj("dict")), Element_b>>,
     <<Element_b, Element_a>>,
     <<Element_b>>}

\* The object the view was opened on is changed behind the view.
data_changes(d) ==
    /\ d \in DataStates
    /\ d # kernel_ns
    /\ kernel_ns' = d
    /\ UNCHANGED <<table, last_error, channel, outbox, dialogs>>

\* Dialogs are opened from the value cells of a view, edited, refreshed
\* and rejected while the object behind the view changes.
NextRefresh ==
    \/ \E k \in Keys : createEditor_local(k, COL_VALUE, "Yes", TRUE)
    \/ \E k \in Keys : ToggleColumnDelegate_createEditor(k, "Yes", TRUE, TRUE)
    \/ \E s \in 1..MaxSessions : editor_edits(s)
    \/ \E s \in 1..MaxSessions, answer \in {"Yes", "No"} :
          refresh_action_triggered(s, answer)
    \/ \E s \in 1..MaxSessions : editor_rejected(s)
    \/ \E d \in DataStates : data_changes(d)

\* A view on an object of two elements, with or without a data function.
InitRefresh ==
    \E view \in DataViews : Opened(<<Element_a, Element_b>>, view)

\* Cells of a view on one value are opened, their dialogs are edited,
\* accepted and rejected, and the collections in them are opened in turn.
NextDispatch ==
    \/ \E k \in Keys, column \in {COL_SIZE, COL_VALUE},
          answer \in {"Yes", "No"}, setup_ok \in BOOLEAN :
          createEditor_local(k, column, answer, setup_ok)
    \/ \E k \in Keys, answer \in {"Yes", "No"}, setup_ok \in BOOLEAN,
          copy_ok \in BOOLEAN :
          ToggleColumnDelegate_createEditor(k, answer, setup_ok, copy_ok)
    \/ \E s \in 1..MaxSessions : editor_edits(s)
    \/ \E s \in 1..MaxSessions : editor_accepted(s)
    \/ \E s \in 1..MaxSessions : ToggleColumnDelegate_editor_accepted(s)
    \/ \E s \in 1..MaxSessions : editor_rejected(s)
    \/ \E s \in 1..MaxSessions : ToggleColumnDelegate_editor_rejected(s)
    \/ editor_accepted_again
    \/ editor_rejected_again
    \/ \E s \in 1..MaxSessions, e \in DelegateEntries : nested_view(s, e)

\* Cells are opened and dialogs are edited, accepted and rejected, while
\* rows are removed.
NextSession ==
    \/ \E k \in Keys, column \in {COL_SIZE, COL_VALUE},
          answer \in {"Yes", "No"}, setup_ok \in BOOLEAN :
          createEditor_local(k, column, answer, setup_ok)
    \/ \E k \in Keys, answer \in {"Yes", "No"}, setup_ok \in BOOLEAN,
          copy_ok \in BOOLEAN :
          ToggleColumnDelegate_createEditor(k, answer, setup_ok, copy_ok)
    \/ \E s \in 1..MaxSessions : editor_edits(s)
    \/ \E s \in 1..MaxSessions : mutates_in_place(s)
    \/ \E s \in 1..MaxSessions : editor_accepted(s)
    \/ \E s \in 1..MaxSessions : ToggleColumnDelegate_editor_accepted(s)
    \/ \E s \in 1..MaxSessions : editor_rejected(s)
    \/ \E s \in 1..MaxSessions : ToggleColumnDelegate_editor_rejected(s)
    \/ \E ks \in SUBSET Keys : remove_item(ks)

\* Fetches of any name, one after the other.
NextClassify ==
    \E reply \in Replies, host \in Hosts : get_value_called(reply, host)

\* Entries whose type and size texts show_warning is given: every type
\* it tells apart with every kind of size, at and around the thresholds.
WarningEntries ==
    {Entry(TestKey(3), t, sz, Other(V_list)) :
        t \in {T_list, T_dict, T_DataFrame, T_Array, T_MyIndexer, T_int},
        sz \in {Count(3), Count(100000), Count(100001), Count(5000001),
                Shape(<<3, 3>>), Shape(<<2500, 2000>>), Shape(<<2500, 2001>>),
                Shape(<<>>)}}

\* A table on a namespace of the kernel with one such entry.
InitOpen ==
    \E e \in WarningEntries :
        Opened(<<e>>, View("CollectionsDelegate", FALSE, FALSE))

\* Opening values of the kernel while the namespace is resynchronised.
NextOpen ==
    \/ \E c \in Callers, k \in ChannelKeys : createEditor(c, k)
    \/ \E c \in Callers : warning_answered(c)
    \/ \E c \in Callers : fetch_returns(c)
    \/ \E d \in Snapshots : set_data(d)

NextChannel ==
    \/ \E c \in Callers, k \in ChannelKeys : createEditor(c, k)
    \/ \E c \in Callers : fetch_returns(c)
    \/ \E c \in Callers, k \in ChannelKeys : store_value(c, k)
    \/ \E c \in Callers : store_returns(c)

NextAsync ==
    \/ \E name \in ChannelKeys : remove_value(name)
    \/ \E orig_name \in ChannelKeys, new_name \in NewNames :
          copy_value(orig_name, new_name)
    \/ kernel_executes
    \/ refresh

Next ==
    \/ \E col \in Columns : sort(col)
    \/ fetchMore
    \/ \E d \in Snapshots : set_data(d)
    \/ \E k \in Keys : \E e \in Bindings(k) : new_value(e)
    \/ \E old \in RenameFrom, new \in NewNames : rename_item(old, new)
    \/ \E ks \in SUBSET Keys : remove_item(ks)

Spec == Init /\ [][Next]_vars

\* The data of a view with a delegate: rows of the values the delegate is
\* given, as they are or edited.
IsDelegateStore(d) ==
    /\ UniqueKeys(d)
    /\ \A i \in 1..Len(d) :
          \/ d[i] \in WarningEntries
          \/ /\ d[i].key \in Keys
             /\ d[i].value \in DelegateValues
                                \cup {Edited(v) : v \in DelegateValues}

\* The state is well formed.
TypeOK ==
    /\ IsStore(store) \/ IsDelegateStore(store)
    /\ delegate \in Views \cup DataViews
    /\ DOMAIN sessions = 1..MaxSessions
    /\ \A s \in 1..MaxSessions :
          sessions[s].open => sessions[s].key \in Keys
    /\ current_index \in 0..Cardinality(Keys)
    /\ Len(keys) = Len(store) /\ Len(types) = Len(store) /\ Len(sizes) = Len(store)
    /\ rows_loaded \in 0..Cardinality(Keys)
    /\ last_error \in {NoError, KeyConflict}
    /\ \A c \in Callers :
          calls[c].op \in {None, "warning", "get_value", "set_value"}
    /\ editors \subseteq Keys
    /\ IsStore(kernel_ns) \/ IsDelegateStore(kernel_ns)
    /\ Len(outbox) <= MaxOutbox
    /\ sort_column \in Columns
    /\ sort_order \in Orders

\* The entry a row stands for.
RowEntry(i) == Lookup(store, keys[i])

\* The rows are exactly the entries of the store, in insertion order.
InInsertionOrder ==
    /\ keys = RowsOf(store).keys
    /\ types = RowsOf(store).types
    /\ sizes = RowsOf(store).sizes

(***************************************************************************)
(* C1. Clicking one column again and again cycles Ascending ->             *)
(* Descending -> InsertionOrder -> Ascending, a click on another column    *)
(* starts that column at Ascending, and whenever the cycle is back at      *)
(* InsertionOrder (the third click) the rows are the entries in their      *)
(* insertion order again.                                                  *)
(***************************************************************************)
C1_SortCycle ==
    /\ [](sort_order = InsertionOrder => InInsertionOrder)
    /\ [][(sort_column' # sort_column \/ sort_order' # sort_order) =>
            IF sort_column' # sort_column THEN sort_order' = Ascending
            ELSE \/ sort_order = Ascending /\ sort_order' = Descending
                 \/ sort_order = Descending /\ sort_order' = InsertionOrder
                 \/ sort_order = InsertionOrder /\ sort_order' = Ascending]_vars

\* The third click on the Value column, on a table that sorting reorders.
C1_Witness ==
    /\ sort_column = COL_VALUE
    /\ sort_order = InsertionOrder
    /\ Len(store) >= 3
    /\ sorted(store, COL_VALUE, FALSE) # store
    /\ sorted(store, COL_VALUE, TRUE) # store

\* Two entries the comparator of the column ranks equal.
Tied(col, a, b) ==
    /\ col = COL_SIZE => SizeComparable(a.size, b.size)
    /\ ~ColumnLess(col, a, b)
    /\ ~ColumnLess(col, b, a)

\* The comparator of the column puts every two entries of d in a strict
\* order: none are ranked equal, none cannot be compared.
StrictlyOrdered(d, col) ==
    \A i, j \in 1..Len(d) :
        i # j => /\ col = COL_SIZE => SizeComparable(d[i].size, d[j].size)
                 /\ ColumnLess(col, d[i], d[j]) \/ ColumnLess(col, d[j], d[i])

\* A click took the column from Ascending to Descending.
TurnedDescending ==
    /\ sort_order = Ascending
    /\ sort_order' = Descending
    /\ sort_column' = sort_column
    /\ store' = store

RowsReversed ==
    /\ keys' = Reverse(keys)
    /\ types' = Reverse(types)
    /\ sizes' = Reverse(sizes)

C3_TiesInInsertionOrder ==
    sort_order # InsertionOrder =>
        \A i, j \in 1..Len(keys) :
            (i < j /\ Tied(sort_column, RowEntry(i), RowEntry(j)))
                => IndexOf(store, keys[i]) < IndexOf(store, keys[j])

(***************************************************************************)
(* C4.  With the Key column Ascending the keys are in natural order: the   *)
(* keys 'test<m>' and 'test<n>' appear in the order of the numbers m and   *)
(* n (test3 before test20 before test100).                                 *)
(***************************************************************************)
C4_NaturalOrder ==
    (sort_column = COL_KEY /\ sort_order = Ascending) =>
        \A i, j \in 1..Len(keys) : \A m, n \in TestNumbers :
            (i < j /\ keys[i] = TestKey(m) /\ keys[j] = TestKey(n)) => m < n

\* test3, test20 and test100, inserted in another order, sorted by key.
C4_Witness ==
    /\ sort_column = COL_KEY
    /\ sort_order = Ascending
    /\ \A n \in TestNumbers : HasKey(store, TestKey(n))
    /\ IndexOf(store, TestKey(100)) < IndexOf(store, TestKey(3))
    /\ \E i \in 1..Len(keys) : keys[i] = TestKey(20) /\ keys[i + 1] = TestKey(100)

\* Every value of the table is a number.
AllNumeric == \A i \in 1..Len(store) : store[i].value.isnum

(***************************************************************************)
(* C5.  With the Value column Ascending and every value a number, the rows *)
(* are in the order of the numbers: negatives before zero before the       *)
(* positives, and of two negatives the one of larger magnitude first.      *)
(***************************************************************************)
C5_NumericOrder ==
    (sort_column = COL_VALUE /\ sort_order = Ascending /\ AllNumeric) =>
        \A i, j \in 1..Len(keys) :
            i < j => RowEntry(i).value.n <= RowEntry(j).value.n

\* -10, -1 and 0 sorted by value: "-1" < "-10" as text, -10 < -1 as numbers.
C5_Witness ==
    /\ sort_column = COL_VALUE
    /\ sort_order = Ascending
    /\ AllNumeric
    /\ Len(keys) >= 3
    /\ RowEntry(1).value.n = 0 - 10
    /\ RowEntry(2).value.n = 0 - 1
    /\ \E i \in 1..Len(keys) : RowEntry(i).value.n >= 0

FullyLoaded == rows_loaded = Len(store)

(***************************************************************************)
(* C6.  A fetch_more() on a table that is not fully loaded sets            *)
(* loaded_count to the smaller of loaded_count + page_size and the number  *)
(* of entries; on a fully loaded table it changes nothing.  In both cases  *)
(* the entries, the rows and the SortState stay as they are, whatever the  *)
(* sort.                                                                   *)
(***************************************************************************)
C6_FetchMore ==
    [][fetchMore =>
        /\ ~FullyLoaded =>
              /\ rows_loaded' <= rows_loaded + ROWS_TO_LOAD
              /\ rows_loaded' <= Len(store)
              /\ rows_loaded' = rows_loaded + ROWS_TO_LOAD \/ rows_loaded' = Len(store)
        /\ FullyLoaded => rows_loaded' = rows_loaded
        /\ store' = store
        /\ <<keys, types, sizes>>' = <<keys, types, sizes>>
        /\ <<sort_column, sort_order>>' = <<sort_column, sort_order>>]_vars

\* A sorted table whose next page is cut short by the number of entries.
C6_Witness ==
    /\ sort_order = Descending
    /\ 0 < rows_loaded
    /\ rows_loaded < Len(store)
    /\ Len(store) < rows_loaded + ROWS_TO_LOAD

\* A step that changes the Entry Store in any way.
StoreMutated == store' # store

(***************************************************************************)
(* C7.  When fetch_more() is called again and again and the store is no    *)
(* longer mutated, the table becomes fully loaded and stays so: the row    *)
(* count is the number of entries, and fetch_more() changes nothing.       *)
(***************************************************************************)
C7_FetchReachesFull ==
    /\ []<><<StoreMutated>>_vars \/ <>[]FullyLoaded
    /\ [][(fetchMore /\ FullyLoaded) => UNCHANGED vars]_vars

\* A table that needs more than one fetch_more() to be fully loaded.
C7_Witness ==
    /\ rows_loaded + ROWS_TO_LOAD < Len(store)

(***************************************************************************)
(* C8.  In every reachable state 0 <= loaded_count <= number of entries.   *)
(***************************************************************************)
C8_LoadedWithinTotal ==
    /\ 0 <= rowCount
    /\ rowCount <= Len(store)
    /\ rowCount <= Len(keys)

\* A partly loaded table after entries were removed.
C8_Witness ==
    /\ 0 < rows_loaded
    /\ rows_loaded < Len(store)
    /\ Len(store) < Cardinality(Keys) - 1

\* The number of rows shown does not go down.
NotLowered == rows_loaded' >= rows_loaded

\* The steps of the table, told by what they do to the store and the sort.
Inserted == \E k \in Keys : \E e \in Bindings(k) : store' = Assign(store, e)

WasRenamed ==
    \E old \in RenameFrom, new \in NewNames :
        /\ HasKey(store, old)
        /\ ~HasKey(store, new)
        /\ store' = Renamed(store, old, new)

Removed == \E ks \in SUBSET Keys : store' = Without(store, ks)

Sorted == store' = store /\ <<sort_column, sort_order>>' # <<sort_column, sort_order>>

Fetched == UNCHANGED <<store, keys, types, sizes, sort_column, sort_order>>

(***************************************************************************)
(* C9, as claimed.  loaded_count never decreases across insert, rename,    *)
(* remove, sort or fetch_more, and a sort leaves it unchanged.             *)
(***************************************************************************)
C9_NeverDecreases ==
    [][/\ (Inserted \/ WasRenamed \/ Removed \/ Fetched) => NotLowered
       /\ Sorted => rows_loaded' = rows_loaded]_vars

(***************************************************************************)
(* C9, amended.  loaded_count never decreases across insert, rename, sort  *)
(* or fetch_more, and a sort leaves it unchanged; remove (which ends in a  *)
(* resynchronisation) and replace_all may lower it.                        *)
(***************************************************************************)
C9_DecreasesOnlyOnRemoval ==
    [][/\ (Inserted \/ WasRenamed \/ Fetched) => NotLowered
       /\ Sorted => rows_loaded' = rows_loaded]_vars

\* A table with more than one page loaded, not fully loaded, so that an
\* insert has a count to keep.
C9_Witness ==
    /\ rows_loaded > ROWS_TO_LOAD
    /\ rows_loaded < Len(store)

(***************************************************************************)
(* C10.  The rows shown carry pairwise distinct keys that all belong to    *)
(* the store, and the type and the size of each row are those of the       *)
(* entry of its key (its display is read from that entry).                 *)
(***************************************************************************)
C10_RowsMatchStore ==
    /\ \A i, j \in 1..rowCount : keys[i] = keys[j] => i = j
    /\ \A i \in 1..rowCount :
          /\ HasKey(store, keys[i])
          /\ types[i] = RowEntry(i).type
          /\ sizes[i] = RowEntry(i).size

\* The entry of key old is now the entry of key new, with the same type,
\* size and value; the other entries are as they were.
OnlyKeyChanged(old, new) ==
    /\ ~HasKey(store', old)
    /\ HasKey(store', new)
    /\ Lookup(store', new).type = Lookup(store, old).type
    /\ Lookup(store', new).size = Lookup(store, old).size
    /\ Lookup(store', new).value = Lookup(store, old).value
    /\ Display(Lookup(store', new).value) = Display(Lookup(store, old).value)
    /\ \A k \in Keys \ {old, new} :
          /\ HasKey(store', k) = HasKey(store, k)
          /\ HasKey(store, k) => Lookup(store', k) = Lookup(store, k)

(***************************************************************************)
(* C11.  rename(old, new) with new not yet a key changes only the key of   *)
(* the renamed entry: its type, size and display stay, every other entry   *)
(* is untouched, and the number of entries and of rows shown is unchanged. *)
(***************************************************************************)
C11_RenameChangesOnlyKey ==
    [][\A old \in RenameFrom, new \in NewNames :
          (rename_item(old, new) /\ ~HasKey(store, new)) =>
              /\ OnlyKeyChanged(old, new)
              /\ UniqueKeys(store')
              /\ Len(store') = Len(store)
              /\ Len(keys') = Len(keys)
              /\ rows_loaded' = rows_loaded]_vars

\* 'test3' was renamed to 'Test3' in a sorted, partly loaded table: the
\* value -10 is one only 'test3' is ever bound to.
C11_Witness ==
    /\ HasKey(store, K_Test3)
    /\ ~HasKey(store, TestKey(3))
    /\ Lookup(store, K_Test3).value = Num(0 - 10)
    /\ Len(store) >= 3
    /\ sort_order # InsertionOrder
    /\ 0 < rows_loaded /\ rows_loaded < Len(store)

(***************************************************************************)
(* C12.  rename(old, new) with new already a key fails with KeyConflict    *)
(* and leaves the store (keys, descriptors, insertion order), the rows,    *)
(* the SortState and the PageWindow exactly as they were.                  *)
(***************************************************************************)
C12_ConflictLeavesAll ==
    [][\A old \in RenameFrom, new \in NewNames :
          (rename_item(old, new) /\ HasKey(store, new)) =>
              /\ last_error' = KeyConflict
              /\ store' = store
              /\ <<keys, types, sizes>>' = <<keys, types, sizes>>
              /\ <<sort_column, sort_order>>' = <<sort_column, sort_order>>
              /\ rows_loaded' = rows_loaded]_vars

\* A refused rename on a sorted, partly loaded table that holds both keys.
C12_Witness ==
    /\ last_error = KeyConflict
    /\ HasKey(store, TestKey(20))
    /\ HasKey(store, K_Test3)
    /\ sort_order = Descending
    /\ 0 < rows_loaded /\ rows_loaded < Len(store)

\* The rows of the keys that stay are in the same relative order before
\* and after the step.
RowsKeepOrder(ks) ==
    \A k1, k2 \in Range(keys) \ ks :
        (k1 \in Range(keys') /\ k2 \in Range(keys')) =>
            ((RowOf(keys, k1) < RowOf(keys, k2))
                <=> (RowOf(keys', k1) < RowOf(keys', k2)))

\* Exactly the entries of the keys ks are gone from the store.
ExactlyRemoved(ks) ==
    /\ Len(store') = Len(store) - Cardinality(ks)
    /\ \A k \in ks : ~HasKey(store', k)
    /\ \A k \in Keys \ ks :
          HasKey(store, k) => /\ HasKey(store', k)
                              /\ Lookup(store', k) = Lookup(store, k)

(***************************************************************************)
(* C13.  remove(keys) deletes exactly the entries of the given keys: the   *)
(* row count drops by the number of removed keys, every other entry stays  *)
(* with its data, and the remaining rows keep their relative order, also   *)
(* after a replace_all.                                                    *)
(***************************************************************************)
C13_RemoveExact ==
    [][\A ks \in SUBSET Keys :
          remove_item(ks) =>
              /\ ExactlyRemoved(ks)
              /\ rowCount' = rowCount - Cardinality(ks)
              /\ RowsKeepOrder(ks)]_vars

\* The fixed explanations a failed fetch can carry.
Explanations ==
    {reason_big[1], reason_not_picklable[1], reason_dead[1], reason_other[1],
     reason_comm[1], reason_missing_package_target(<<>>)[1],
     reason_missing_package_installer(<<>>)[1], reason_missing_package(<<>>)[1],
     reason_mismatched_numpy[1], reason_mismatched_pandas[1],
     reason_mismatched_python("", "", "", "")[1]}

\* The outcome is the typed error with the explanation x.
TypedError(outcome, x) ==
    /\ outcome.raised
    /\ outcome.cls = "ValueError"
    /\ Len(outcome.text) >= 3
    /\ outcome.text[1] = msg(<<>>)[1]
    /\ outcome.text[2] = x
    /\ outcome.text[Len(outcome.text)] = msg(<<>>)[2]

\* The latest fetch failed with the exception class cls.
FetchFailedWith(cls) ==
    /\ last_result.op = "get_value"
    /\ last_result.cause.cls = cls

(***************************************************************************)
(* C14.  A fetch that exceeds the timeout fails with the "too big" error   *)
(* and a fetch against a dead kernel with the "kernel is dead" error; in   *)
(* both cases the store and the rows are as before the fetch and no        *)
(* editor is registered.                                                   *)
(***************************************************************************)
C14_FailedFetchLeavesStore ==
    /\ [](FetchFailedWith("TimeoutError")
              => TypedError(last_result.outcome, reason_big[1]))
    /\ [](FetchFailedWith("RuntimeError")
              => TypedError(last_result.outcome, reason_dead[1]))
    /\ [][\A c \in Callers :
            (/\ calls[c].op = "get_value"
             /\ calls'[c] = Idle
             /\ last_result'.cause.cls \in {"TimeoutError", "RuntimeError"})
                => /\ calls[c].timeout = Timeout(CALL_KERNEL_TIMEOUT)
                   /\ store' = store
                   /\ <<keys, types, sizes, rows_loaded>>' = <<keys, types, sizes, rows_loaded>>
                   /\ editors' = editors]_vars

\* A fetch of 'test3' timed out while the editor of 'Test3' is open and
\* 'test3' has none.
C14_Witness ==
    /\ FetchFailedWith("TimeoutError")
    /\ HasKey(store, TestKey(3))
    /\ editors = {K_Test3}

(***************************************************************************)
(* C15.  A fetch ends in one of three ways: it returns the decoded value,  *)
(* it raises the KeyError of the kernel unchanged, or it raises the typed  *)
(* error with one of the fixed explanations.  No failure of the call or    *)
(* of the decoding ends in another exception or in a null value.           *)
(***************************************************************************)
C15_ThreeOutcomes ==
    last_result.op = "get_value" =>
        LET e == last_result.cause
            r == last_result.outcome
        IN  /\ \/ e = NoExc /\ ~r.raised /\ r.value = DecodedValue
               \/ e.cls = "KeyError" /\ r = Raised(e.cls, e.text)
               \/ \E x \in Explanations : TypedError(r, x)
            /\ e # NoExc => r.raised /\ r.cls \in {"KeyError", "ValueError"}
            /\ (e # NoExc /\ e.cls # "KeyError") => r.cls = "ValueError"

\* A fetch whose decoding failed for a missing module.
C15_Witness ==
    /\ FetchFailedWith("ModuleNotFoundError")
    /\ last_result.outcome.raised
    /\ last_result.cause.module = some_module

\* Every fragment of the text a is part of the text b.
Carries(b, a) == \A i \in 1..Len(a) : \E j \in 1..Len(b) : b[j] = a[i]

(***************************************************************************)
(* C16.  A fetch that failed for a cause outside the named kinds ends in   *)
(* the Unknown error, and that error carries the message of the original   *)
(* failure.                                                                *)
(***************************************************************************)
C16_UnknownCarriesMessage ==
    (last_result.op = "get_value" /\ TypedError(last_result.outcome, reason_other[1]))
        => Carries(last_result.outcome.text, last_result.cause.text)

(***************************************************************************)
(* C17.  store(key, value) returns normally only when the kernel took the  *)
(* assignment: every failure of the serialization or of the dispatch       *)
(* reaches the caller as a typed error.                                    *)
(***************************************************************************)
C17_StoreFailuresSurface ==
    last_result.op = "set_value" =>
        /\ ~last_result.outcome.raised => last_result.cause = NoExc
        /\ last_result.outcome.raised => last_result.outcome.cls = "ValueError"

(***************************************************************************)
(* C18.  The dispatch of a store is bounded by the timeout of a fetch      *)
(* (30): the call is made with that timeout, and a store the kernel never  *)
(* acknowledges ends with an error.                                        *)
(***************************************************************************)
C18_StoreBounded ==
    /\ \A c \in Callers :
          calls[c].op = "set_value" => calls[c].timeout = Timeout(CALL_KERNEL_TIMEOUT)
    /\ (last_result.op = "set_value" /\ last_result.cause.cls = "TimeoutError")
          => last_result.outcome.raised

\* A remove or a copy was requested.
FireAndForget ==
    \/ \E name \in ChannelKeys : remove_value(name)
    \/ \E orig_name \in ChannelKeys, new_name \in NewNames :
          copy_value(orig_name, new_name)

(***************************************************************************)
(* C19.  remove(key) and copy(src, dst) return without waiting for the     *)
(* kernel: the request is left with the kernel, not yet executed, and no   *)
(* caller is blocked.  They do not change the store or the rows; the       *)
(* store changes only by a replace_all, which brings what the kernel has   *)
(* done.                                                                   *)
(***************************************************************************)
C19_FireAndForget ==
    /\ [][FireAndForget =>
            /\ Len(outbox') = Len(outbox) + 1
            /\ kernel_ns' = kernel_ns
            /\ calls' = calls
            /\ store' = store
            /\ <<keys, types, sizes, rows_loaded>>' = <<keys, types, sizes, rows_loaded>>]_vars
    /\ [][store' # store => (refresh /\ store' = kernel_ns)]_vars

\* The kernel has removed 'test3', another request waits, and the store
\* still shows 'test3'.
C19_Witness ==
    /\ HasKey(store, TestKey(3))
    /\ ~HasKey(kernel_ns, TestKey(3))
    /\ outbox # <<>>

(***************************************************************************)
(* C20.  At no time are two fetch or store requests for the same key       *)
(* outstanding at once.                                                    *)
(***************************************************************************)
C20_OneRequestPerKey ==
    \A c1, c2 \in Callers :
        (c1 # c2 /\ calls[c1] # Idle /\ calls[c2] # Idle)
            => calls[c1].name # calls[c2].name

\* The row of the key k asks for the warning.
Risky(k) ==
    /\ k \in Range(keys)
    /\ show_warning(types[RowOf(keys, k)], sizes[RowOf(keys, k)]) = Flag(TRUE)

(***************************************************************************)
(* C21.  The response to a fetch whose key has left the namespace by a     *)
(* resynchronisation while the fetch was outstanding is discarded: no      *)
(* editor is opened for it, no error is shown, and the store and the open  *)
(* dialogs stay as they are.                                               *)
(***************************************************************************)
C21_StaleResponseDiscarded ==
    [][\A c \in Callers :
        (/\ calls[c].op = "get_value"
         /\ calls'[c] = Idle
         /\ ~HasKey(store, calls[c].name))
            => /\ editors' = editors
               /\ ~last_result'.outcome.raised
               /\ store' = store
               /\ sessions' = sessions]_vars

(***************************************************************************)
(* C22.  For a row that asks for the warning no fetch is issued before the *)
(* user has confirmed: createEditor goes to the warning and not to the     *)
(* fetch, and from the warning the only ways on are the fetch of the same  *)
(* key, after "Yes", or the end of createEditor with no fetch and no       *)
(* editor registered, after "No".                                          *)
(***************************************************************************)
C22_ConfirmBeforeFetch ==
    [][\A c \in Callers :
        /\ (calls[c] = Idle /\ calls'[c].op = "get_value")
              => ~Risky(calls'[c].name)
        /\ (calls[c] = Idle /\ calls'[c] # Idle /\ Risky(calls'[c].name))
              => calls'[c] = Warning(calls'[c].name)
        /\ (calls[c].op = "warning" /\ calls'[c] # calls[c])
              => \/ calls'[c] = Fetch(calls[c].name)
                 \/ /\ calls'[c] = Idle
                    /\ editors' = editors
                    /\ last_result' = last_result]_vars

\* The Variable Explorer has confirmed and waits for the value of a large
\* entry, and the nested table is still asked about the same entry.
C22_Witness ==
    /\ Risky(TestKey(3))
    /\ calls["explorer"] = Fetch(TestKey(3))
    /\ calls["nested"] = Warning(TestKey(3))

\* The dimensions a size text stands for: a count is a single dimension.
Dimensions(val_size) ==
    IF val_size.scalar THEN <<val_size.n>> ELSE val_size.dims

\* The risk flag as it is described: a collection with more elements than
\* LARGE_COLLECTION, or an array or a frame whose dimensions multiply to
\* more than LARGE_ARRAY; a size that cannot be read is not risky.
RiskyByRule(val_type, val_size) ==
    \/ /\ val_type \in {T_list, T_set, T_tuple, T_dict}
       /\ val_size.scalar
       /\ val_size.n > LARGE_COLLECTION
    \/ /\ \/ val_type \in {T_DataFrame, T_Series}
          \/ Contains(val_type, <<65, 114, 114, 97, 121>>)
          \/ Contains(val_type, <<73, 110, 100, 101, 120>>)
       /\ Dimensions(val_size) # <<>>
       /\ Product(Dimensions(val_size)) > LARGE_ARRAY

(***************************************************************************)
(* C23.  show_warning never raises, and what it answers for a row is the   *)
(* risk flag of the row's type and size; for a size it cannot read, of     *)
(* whatever type, the answer is "not risky".                               *)
(***************************************************************************)
C23_RiskFlag ==
    /\ last_result.op # "show_warning"
    /\ \A i \in 1..Len(keys) :
          LET w == show_warning(types[i], sizes[i]) IN
          ~w.raised => w.flag = RiskyByRule(types[i], sizes[i])

\* C24: opening a mutable scalar integer for inline text editing is rejected
\* with the too-large-to-edit error, and no line editor is made, if and
\* only if the integer has more than MAX_INT_DIGITS_FOR_EDITING decimal
\* digits; every integer with at most that many digits gets a line editor
\* and no error.
C24_LargeIntRejected ==
    (shown.value.cls = "int" /\ ~delegate.readonly /\ ~delegate.object_explorer)
        => IF DecimalDigits(shown.value) > MAX_INT_DIGITS_FOR_EDITING
           THEN shown.made.editor = None /\ shown.made.error = too_large
           ELSE shown.made.editor = "QLineEdit" /\ shown.made.error = <<>>

\* The immutable containers.
ImmutableContainer(value) == isinstance(value, {"tuple", "frozenset"})

\* C25: the readonly flag of an opened value is true exactly when the value
\* is an immutable container (a tuple or a frozenset), or the view it is
\* opened from is read-only, or its type is not a known type; so every
\* dialog opened from a read-only view is read-only.
C25_ReadOnlyFlag ==
    shown.made.dialog
        => /\ shown.made.readonly <=>
                \/ ImmutableContainer(shown.value)
                \/ delegate.readonly
                \/ ~is_known_type(shown.value)
           /\ delegate.readonly => shown.made.readonly

\* The editors that are put in the cell itself.
InlineEditors == {"QLineEdit", "QDateEdit", "QDateTimeEdit"}

\* C26: nothing done with a read-only target calls set_value: accepting a
\* read-only dialog stores nothing and leaves every value as it is, and a
\* value that is read-only gets no editor in its cell.
C26_ReadOnlyNeverStores ==
    [][/\ accepted'.readonly => ~accepted'.stored
       /\ (accepted' # accepted /\ accepted'.readonly) => store' = store
       /\ (shown'.value # NoValue /\ readonly(shown'.value, delegate'.readonly))
             => shown'.made.editor \notin InlineEditors]_vars

\* An edited read-only dialog on a tuple was accepted, and the tuple is as
\* it was.
C26_Witness ==
    /\ accepted.key = TestKey(3)
    /\ accepted.readonly
    /\ accepted.popped
    /\ ~delegate.readonly
    /\ Lookup(store, TestKey(3)).value = Obj("tuple")

\* C27: when a dialog that is not read-only is accepted, the target is
\* found again at that time: the value is stored under the key the dialog
\* was opened on, at the row that shows this key then, whatever was
\* opened, removed or moved since the dialog was opened.
C27_TargetResolvedAtAccept ==
    [][accepted' # accepted
          => /\ accepted'.stored => accepted'.target = accepted'.key
             /\ (~accepted'.readonly /\ accepted'.key \in Range(keys))
                   => accepted'.stored]_vars

\* C28: when set_value fails during accept, an error box with the message
\* of the failure is shown, the dialog is taken out of _editors, and no
\* exception leaves editor_accepted.
C28_StoreFailureHandled ==
    accepted.failure # <<>>
        => /\ accepted.error = set_error \o accepted.failure
           /\ accepted.popped
           /\ ~accepted.raised

\* C29: when a dialog is rejected, and no dialog was accepted before, the
\* value of its key is the value it had when the dialog was opened, also
\* when the editor changed the object in place.
C29_RejectRestores ==
    [][\A s \in 1..MaxSessions :
          (/\ sessions[s].open
           /\ ~sessions'[s].open
           /\ accepted = NoAccepted
           /\ accepted' = NoAccepted
           /\ HasKey(store', sessions[s].key))
              => Lookup(store', sessions[s].key).value = sessions[s].original]_vars

\* C30: after a dialog that is not read-only is accepted with the value v
\* and set_value succeeds, the value of its key is conv(v), v itself when
\* the dialog has no conv, and no other value has changed.
C30_AcceptStores ==
    [][\A s \in 1..MaxSessions :
          (/\ sessions[s].open
           /\ ~sessions'[s].open
           /\ accepted' # accepted
           /\ accepted'.stored
           /\ accepted'.failure = <<>>)
              => /\ HasKey(store', sessions[s].key)
                 /\ Lookup(store', sessions[s].key).value =
                       conv_func(sessions[s].conv, sessions[s].value)
                 /\ \A i \in 1..Len(store) :
                       store[i].key # sessions[s].key => store'[i] = store[i]
                 /\ Len(store') = Len(store)]_vars

\* C34: under InsertionOrder rename(old, new) is remove(old) followed by
\* insert(new): the renamed entry is the last one afterwards, in the store
\* and in the rows, so it keeps its position only when it was the last
\* entry already, and the other entries keep their order.
C34_RenameMovesToEnd ==
    [][\A old \in RenameFrom, new \in NewNames :
          (/\ rename_item(old, new)
           /\ ~HasKey(store, new)
           /\ sort_order = InsertionOrder)
              => /\ store'[Len(store')].key = new
                 /\ keys'[Len(keys')] = new
                 /\ Without(store', {new}) = Without(store, {old})
                 /\ SubSeq(keys', 1, Len(keys') - 1)
                       = KeysOf(Without(store, {old}))
                 /\ (RowOf(keys', new) = RowOf(keys, old))
                       <=> (RowOf(keys, old) = Len(keys))]_vars

\* 'test20' (the only name bound to -1) was renamed to 'Test3' under
\* InsertionOrder and is now the last row, behind 'test100' and 'test3'.
C34_Witness ==
    /\ sort_order = InsertionOrder
    /\ keys = <<TestKey(100), TestKey(3), K_Test3>>
    /\ Lookup(store, K_Test3).value = Num(0 - 1)

\* The kind of the taxonomy an outcome of get_value has, from its
\* explanation; "None" for an outcome that is no typed error.
KindOf(outcome) ==
    IF TypedError(outcome, reason_big[1]) THEN "TooLarge"
    ELSE IF TypedError(outcome, reason_not_picklable[1]) THEN "NotSerializable"
    ELSE IF \/ TypedError(outcome, reason_mismatched_python("", "", "", "")[1])
            \/ TypedError(outcome, reason_mismatched_numpy[1])
            \/ TypedError(outcome, reason_mismatched_pandas[1])
    THEN "VersionMismatch"
    ELSE IF TypedError(outcome, reason_dead[1]) THEN "KernelDead"
    ELSE IF TypedError(outcome, reason_comm[1]) THEN "ChannelError"
    ELSE IF TypedError(outcome, reason_missing_package_target(<<>>)[1])
    THEN "MissingDependency: missing in the kernel"
    ELSE IF TypedError(outcome, reason_missing_package_installer(<<>>)[1])
    THEN "MissingDependency: missing in the fixed installer image"
    ELSE IF TypedError(outcome, reason_missing_package(<<>>)[1])
    THEN "MissingDependency: missing in the host"
    ELSE IF TypedError(outcome, reason_other[1]) THEN "Unknown"
    ELSE "None"

\* The failure is one of the serialization layer: the pickling in the
\* kernel failed, or cloudpickle.loads raised after the call succeeded.
SerializationFailure(cause, success) ==
    \/ cause.cls \in {"PicklingError", "UnpicklingError"}
    \/ success /\ cause.cls \in {"TypeError", "AttributeError"}

\* The kinds the classification rule allows for a failure.  A module of a
\* known version pairing (numpy._core, pandas.core.indexes.numeric) that
\* is absent when decoding may count as a version mismatch as well.
KindsByRule(cause, success, host) ==
    IF cause.cls = "TimeoutError" THEN {"TooLarge"}
    ELSE IF cause.cls = "ModuleNotFoundError"
    THEN IF ~success THEN {"MissingDependency: missing in the kernel"}
         ELSE IF host.conda
         THEN {"MissingDependency: missing in the fixed installer image"}
         ELSE IF cause.module \in {numpy_core, pandas_index}
         THEN {"MissingDependency: missing in the host", "VersionMismatch"}
         ELSE {"MissingDependency: missing in the host"}
    ELSE IF SerializationFailure(cause, success)
    THEN IF startswith(cause.text, {"code expected at most", "code() argument"})
         THEN {"VersionMismatch"}
         ELSE {"NotSerializable"}
    ELSE IF cause.cls = "RuntimeError" THEN {"KernelDead"}
    ELSE IF cause.cls = "CommError" THEN {"ChannelError"}
    ELSE {"Unknown"}

\* C35: every failure of a fetch, the re-raised KeyError aside, gets exactly
\* the kind the rule names: timeout TooLarge; failure of the serialization
\* VersionMismatch for a known version pairing, else NotSerializable;
\* unresponsive kernel KernelDead; broken transport ChannelError; absent
\* module MissingDependency with the context of where it is missing;
\* anything else Unknown.
C35_Classification ==
    (/\ last_result.op = "get_value"
     /\ last_result.cause # NoExc
     /\ last_result.cause.cls # "KeyError"
     /\ "host" \in DOMAIN last_result)
        => KindOf(last_result.outcome)
              \in KindsByRule(last_result.cause,
                              last_result.kernel_call_success, last_result.host)

\* C36: _editors holds exactly the dialogs that were opened and not yet
\* accepted or rejected, and an accepted signal for a dialog that was taken
\* out already does nothing and raises nothing.
C36_Registry ==
    /\ editors = OpenKeys(sessions)
    /\ accepted.failure = no_editor_id => ~accepted.raised

\* C37: when a tree opens a cell on a value (the warning, if any, being
\* answered Yes), the snapshot is the copy of the value, and when no copy
\* can be made the cell is opened all the same, with no snapshot: the
\* editor is the one of the value's type and its dialog is registered.
C37_SnapshotOnOpen ==
    [][\A k \in Keys, answer \in {"Yes", "No"}, setup_ok \in BOOLEAN,
          copy_ok \in BOOLEAN :
          (/\ ToggleColumnDelegate_createEditor(k, answer, setup_ok, copy_ok)
           /\ Lookup(store, k).value # NoValue
           /\ ~(show_warning(types[RowOf(keys, k)],
                             sizes[RowOf(keys, k)]).flag /\ answer = "No"))
              => LET e == Lookup(store, k)
                     made == ToggleColumnDelegate_editor(e, delegate.readonly,
                                                         setup_ok)
                 IN  /\ old_obj' = IF copy_ok THEN e.value ELSE NoValue
                     /\ shown'.made = made
                     /\ made.dialog => k \in editors']_vars

\* C39: every call of CollectionsDelegate.createEditor emits
\* sig_editor_creation_started once and, before it returns, sig_editor_shown
\* exactly once, whichever way it returns.
C39_StartedThenShown ==
    shown.made.started = 1 => shown.made.emitted = 1

\* C40: with several dialogs of one tree open, accepting or rejecting one
\* of them writes or restores at its own target only: the objects of all
\* other items stay as they are.
C40_SessionsIsolated ==
    [][\A s \in 1..MaxSessions :
          (\/ ToggleColumnDelegate_editor_accepted(s)
           \/ ToggleColumnDelegate_editor_rejected(s))
              => \A i \in 1..Len(store) :
                    store[i].key # sessions[s].key => store'[i] = store[i]]_vars

\* C31: when the data function raises KeyError during a refresh, one
\* critical error is shown and the editor is rejected: the dialog is closed,
\* nothing is replaced or stored, and no exception leaves the handler.
C31_KeyErrorClosesSession ==
    [][\A s \in 1..MaxSessions, answer \in {"Yes", "No"} :
          (/\ refresh_action_triggered(s, answer)
           /\ ~(sessions[s].value.rev = 1 /\ answer = "No")
           /\ accessor(s).error = "KeyError")
              => /\ last_result'.criticals = 1
                 /\ last_result'.rejected
                 /\ ~last_result'.replaced
                 /\ last_result'.raised = ""
                 /\ ~sessions'[s].open
                 /\ \A x \in 1..MaxSessions \ {s} : sessions'[x] = sessions[x]
                 /\ store' = store]_vars

\* The dialog of 'test20', opened from a dict, was refreshed after the key
\* was removed from the dict: one critical error, and the dialog is gone.
C31_Witness ==
    /\ last_result.op = "refresh"
    /\ last_result.key = TestKey(20)
    /\ last_result.criticals = 1
    /\ last_result.rejected
    /\ delegate.data = "dict"
    /\ ~HasKey(kernel_ns, TestKey(20))
    /\ TestKey(20) \notin OpenKeys(sessions)

\* C32: a refresh of an editor with unsaved edits asks for confirmation
\* exactly once; on No nothing is replaced and the editor keeps the edited
\* value, on Yes its value becomes what the data function returns.
C32_ConfirmBeforeReplace ==
    [][\A s \in 1..MaxSessions, answer \in {"Yes", "No"} :
          (/\ refresh_action_triggered(s, answer)
           /\ sessions[s].value.rev = 1)
              => /\ last_result'.questions = 1
                 /\ answer = "No"
                       => /\ sessions' = sessions
                          /\ ~last_result'.replaced
                          /\ ~last_result'.rejected
                 /\ (answer = "Yes" /\ accessor(s).error = "")
                       => /\ sessions'[s].value = accessor(s).value
                          /\ sessions'[s].open]_vars

\* The refresh of the edited dialog of 'test20' was answered No: the dialog
\* is open with the edited list, while the data function would give a dict.
C32_Witness ==
    /\ last_result.op = "refresh"
    /\ last_result.key = TestKey(20)
    /\ last_result.questions = 1
    /\ ~last_result.replaced
    /\ \E s \in 1..MaxSessions :
          /\ sessions[s].open
          /\ sessions[s].key = TestKey(20)
          /\ sessions[s].value = Edited(Obj("list"))
          /\ accessor(s) = Yields(Obj("dict"))

\* Whether the target of the dialog s can be selected from the parent's
\* current data, and the value selected: the value of the name for a root
\* entry, the element at the captured position of a list or tuple, the
\* value under the captured key or attribute name otherwise.
Selectable(s) ==
    IF delegate.data \in {"list", "tuple"}
    THEN IndexOf(store, sessions[s].key) <= Len(kernel_ns)
    ELSE delegate.data # "set" /\ HasKey(kernel_ns, sessions[s].key)

Selected(s) ==
    IF delegate.data \in {"list", "tuple"}
    THEN kernel_ns[IndexOf(store, sessions[s].key)].value
    ELSE Lookup(kernel_ns, sessions[s].key).value

\* C38: after a refresh of an editor without unsaved edits its value is the
\* target resolved again at that time, from the kernel for a root entry and
\* from the parent's current data for a nested one; a dialog opened from a
\* view without data function has none and is never refreshed.
C38_RefreshReResolves ==
    [][\A s \in 1..MaxSessions, answer \in {"Yes", "No"} :
          refresh_action_triggered(s, answer)
              => /\ delegate.data_function
                 /\ (sessions[s].value.rev = 0 /\ Selectable(s))
                       => /\ sessions'[s].open
                          /\ sessions'[s].value = Selected(s)
                          /\ last_result'.questions = 0]_vars

\* The dialog opened on the second row of a list, a tuple then, was
\* refreshed after the list was reordered and holds the list that is second
\* now.
C38_Witness ==
    /\ last_result.op = "refresh"
    /\ last_result.replaced
    /\ last_result.questions = 0
    /\ delegate.data = "list"
    /\ kernel_ns = <<Element_b, Element_a>>
    /\ \E s \in 1..MaxSessions :
          /\ sessions[s].open
          /\ sessions[s].key = K_Test3
          /\ sessions[s].original = Obj("tuple")
          /\ sessions[s].value = Obj("list")

\* C33: whatever happened to the elements of the parent since a dialog was
\* opened, its data function either returns the current value of the
\* element the dialog was opened on or raises: it never returns the value
\* of another element, and never None for an element that is gone.
C33_AccessorNeverRetargets ==
    \A s \in 1..MaxSessions :
       (sessions[s].open /\ delegate.data_function)
          => LET key == sessions[s].key
                 r == accessor(s)
             IN  IF HasKey(kernel_ns, key)
                 THEN r.error # "" \/ r.value = Lookup(kernel_ns, key).value
                 ELSE r.error # ""

SpecLive == Init /\ [][Next]_vars /\ WF_vars(fetchMore)

SpecChannel == Init /\ [][NextChannel]_vars

SpecAsync == Init /\ [][NextAsync]_vars

SpecOpen == InitOpen /\ [][NextOpen]_vars

SpecDispatch == InitDispatch /\ [][NextDispatch]_vars

SpecSession == InitSession /\ [][NextSession]_vars

SpecClassify == Init /\ [][NextClassify]_vars

SpecRefresh == InitRefresh /\ [][NextRefresh]_vars

=============================================================================
